---- MODULE Spec2Model ----
(***************************************************************************)
(* Calc-XD: a calculator that hides a private chat behind a 4-digit code.  *)
(*                                                                         *)
(* The model follows the client sources:                                   *)
(*   client/lib/storage.ts          the secret store and the bulk store    *)
(*   client/context/AppContext.tsx  the session state controller           *)
(*   client/screens/*.tsx           the screens that drive the controller  *)
(*   navigation/RootStackNavigator  the stack of screens                   *)
(*   servernew/routes.js            the backend user service               *)
(*                                                                         *)
(* A JavaScript string is a sequence of one-character strings, so that     *)
(* length, concatenation, slicing and equality are those of the code.      *)
(* Every handler is one action.  An async function is cut at its awaits:   *)
(* the handler's synchronous prefix is one action, and each continuation   *)
(* (the storage call taking effect and the code after the await) another.  *)
(* React state updates made by an action are committed, and the effects    *)
(* that depend on them run, before the next action (RunEffects).           *)
(***************************************************************************)
EXTENDS Integers, Sequences, FiniteSets

VARIABLES
    \* ---- persistence boundary (storage.ts) ----
    secureStore,      \* SecureStore: unlock_code, device_id
    bulkStore,        \* AsyncStorage: is_setup_complete, paired_with, pairing_code, messages
    \* ---- AppProvider state (AppContext.tsx 25-30) ----
    isUnlocked, isPaired, isSetupComplete, deviceId, pairedWith, messages,
    initPc,           \* position of initializeApp
    \* ---- navigation ----
    nav,              \* the stack of routes, bottom first
    \* ---- CalculatorScreen state of the newest Calculator instance ----
    expression, result, secretCode,
    probes,           \* checkSecretCode calls waiting on Storage.verifyUnlockCode
    \* ---- other screens ----
    setup,            \* SetupScreen state
    pairing,          \* PairingScreen state
    settings,         \* SettingsScreen state
    ops,              \* controller operations waiting on storage
    clock,            \* Date.now(), advanced by every message built
    \* ---- backend user service (routes.js) ----
    users,            \* the rows of the users table
    reqs,             \* the requests received: being handled, or answered
    \* ---- observation only (no handler reads these) ----
    typed,            \* number keys pressed since the probe buffer was last due to be cleared
    fails,            \* probes resolved as a mismatch so far (counted up to MaxFails)
    last              \* the step just taken

clientVars == <<secureStore, bulkStore, isUnlocked, isPaired, isSetupComplete, deviceId,
                pairedWith, messages, initPc, nav, expression, result, secretCode, probes,
                setup, pairing, settings, ops, clock, typed, fails, last>>

backendVars == <<users, reqs>>

vars == <<clientVars, backendVars>>

appVars == <<isUnlocked, isPaired, isSetupComplete, deviceId, pairedWith, messages>>
storeVars == <<secureStore, bulkStore>>
calcVars == <<expression, result, secretCode>>
screenVars == <<setup, pairing, settings>>

-----------------------------------------------------------------------------
(* Bounds of the model *)

\* longest expression a number key is still accepted for
MaxExpr == 5

\* longest expression the whole keypad still extends
MaxCalc == 3
\* longest probe buffer a number key is still accepted for
MaxBuf == 5
\* async calls (probes and controller operations) in flight at once
MaxInflight == 2
\* deepest navigation stack
MaxNav == 3
\* messages sent in one run
MaxMsgs == 2
\* mismatched probes counted
MaxFails == 1
\* requests the user service receives
MaxReqs == 3

-----------------------------------------------------------------------------
(* Strings *)

\* JS null for a string-valued record
Null == <<"null">>

\* the number keys offered in this model (BUTTONS, type "number")
KeyDigits == {"1", "2"}

\* the key sequences entered on the calculator in this model: the probe buffer
\* is always the beginning of one of them
Entries == {<<"1", "2", "1", "2", "1", "2">>, <<"2", "1", "2", "1", "2", "1">>,
            <<"1", ".", "2", "1">>, <<"0", ".", "5">>, <<"5", ".", "5">>}

IsEntry(s) == \E e \in Entries : Len(s) <= Len(e) /\ SubSeq(e, 1, Len(s)) = s

Operators == {"+", "-", "*", "/", "%"}

\* String.prototype.includes for a one-character needle
Includes(s, c) == \E i \in 1..Len(s) : s[i] = c

\* String.prototype.lastIndexOf for a one-character needle, 0-based, -1 as 0 shifted:
\* returns the 1-based position, 0 when absent
LastIndexOf(s, c) ==
    IF Includes(s, c) THEN CHOOSE i \in 1..Len(s) : s[i] = c /\ \A j \in (i+1)..Len(s) : s[j] # c
    ELSE 0

Max2(a, b) == IF a >= b THEN a ELSE b

\* s.slice(k) with k 0-based: drops the first k characters
SliceFrom(s, k) == SubSeq(s, k + 1, Len(s))

\* s.slice(0, -1)
DropLast(s) == IF Len(s) = 0 THEN s ELSE SubSeq(s, 1, Len(s) - 1)

-----------------------------------------------------------------------------
(* storage.ts *)

\* Crypto.randomUUID(): the identifiers a fresh install may draw
UUIDs == {"uuid-1"}

\* JS null for a device id
NoId == "null"

EmptySecure == [unlock_code |-> Null, device_id |-> NoId]

\* the message collection is absent (removeItem) or a JSON list
NoMessages == [present |-> FALSE, list |-> <<>>]

EmptyBulk == [is_setup_complete |-> "null", paired_with |-> Null,
              pairing_code |-> Null, messages |-> NoMessages]

\* the lockout a stricter gateway would have (used to test NoLockout)
VerifyWithLockout(storedCode, code) == storedCode = code /\ fails = 0

\* a gateway that accepts any four characters (used to test UnlockOnlyByMatch)
VerifyAnyCode(storedCode, code) == Len(code) = 4

\* a gateway that keeps comparing with the code of the first setup (used to
\* test LatestCodeUnlocks)
VerifyFirstCode(storedCode, code) == code = <<"1", "2", "1", "2">>

\* verifyUnlockCode, after the read: storedCode === code
VerifyUnlockCode(storedCode, code) == storedCode = code

\* a getMessages that finds nothing (used to test InitMirrorsStores)
NoStoredMessages(store) == <<>>

\* isSetupComplete: value ? JSON.parse(value) : false
ParseSetupComplete(value) == IF value = "null" THEN FALSE ELSE value = "true"

\* getMessages: data ? JSON.parse(data) : []
GetMessages(store) == IF store.messages.present THEN store.messages.list ELSE <<>>

\* !!paired for a string or null
Truthy(s) == s # Null /\ s # <<>>

-----------------------------------------------------------------------------
(* Navigation: RootStackNavigator, a native stack whose first route is Calculator *)

Top(s) == s[Len(s)]

\* navigation.navigate(name): stays when the focused route has that name, else pushes
Navigate(s, name) == IF Top(s) = name THEN s ELSE Append(s, name)

HasRoute(s, name) == \E i \in 1..Len(s) : s[i] = name

TopMost(s, name) == CHOOSE i \in 1..Len(s) : s[i] = name /\ \A j \in (i+1)..Len(s) : s[j] # name

\* navigation.replace(name) dispatched by the screen `from`: replaces that screen's
\* route; a route that is gone handles nothing
ReplaceFrom(s, from, name) ==
    IF HasRoute(s, from) THEN [s EXCEPT ![TopMost(s, from)] = name] ELSE s

\* the screens' effects, run once the state they depend on is committed:
\* PairingScreen replaces itself by Chat when isPaired; ChatScreen replaces
\* itself by Calculator when not isUnlocked
RunEffects(s, unl, paired) ==
    [i \in 1..Len(s) |->
        LET a == IF s[i] = "Pairing" /\ paired THEN "Chat" ELSE s[i]
        IN  IF a = "Chat" /\ ~unl THEN "Calculator" ELSE a]

\* a new Calculator instance has become the focused route
NewCalc(before, after) == Top(after) = "Calculator" /\ Top(before) # "Calculator"

-----------------------------------------------------------------------------
(* CalculatorScreen: evaluateExpression *)

Digits == {"0", "1", "2", "3", "4", "5", "6", "7", "8", "9"}

IsDigits(s) == \A i \in 1..Len(s) : s[i] \in Digits

RECURSIVE StripZeros(_)
\* drops the trailing zeros of a fraction
StripZeros(f) == IF Len(f) > 0 /\ f[Len(f)] = "0" THEN StripZeros(DropLast(f)) ELSE f

\* a numeric literal the strict-mode parser accepts: no leading zero before
\* another digit, at most one point, at least one digit
LiteralOk(s) ==
    LET dot == LastIndexOf(s, ".")
        ip  == IF dot = 0 THEN s ELSE SubSeq(s, 1, dot - 1)
        fp  == IF dot = 0 THEN <<>> ELSE SliceFrom(s, dot)
    IN  /\ IsDigits(ip) /\ IsDigits(fp)
        /\ Len(ip) + Len(fp) > 0
        /\ ~(Len(ip) > 1 /\ ip[1] = "0")

DigitChars == <<"0", "1", "2", "3", "4", "5", "6", "7", "8", "9">>

DigitVal(c) == (CHOOSE i \in 1..10 : DigitChars[i] = c) - 1

RECURSIVE NatOf(_)
\* the number a string of digits denotes
NatOf(s) == IF s = <<>> THEN 0 ELSE NatOf(DropLast(s)) * 10 + DigitVal(s[Len(s)])

RECURSIVE NatText(_)
\* String(n) for a natural number
NatText(n) ==
    IF n < 10 THEN <<DigitChars[n + 1]>>
    ELSE NatText(n \div 10) \o <<DigitChars[(n % 10) + 1]>>

RECURSIVE Pow10(_)
Pow10(k) == IF k = 0 THEN 1 ELSE 10 * Pow10(k - 1)

Abs(n) == IF n < 0 THEN 0 - n ELSE n

RECURSIVE Gcd(_, _)
Gcd(a, b) == IF b = 0 THEN a ELSE Gcd(b, a % b)

\* a JS number as a fraction n/d in lowest terms; d = 0 stands for NaN and
\* the two infinities, which evaluateExpression does not tell apart
NotFinite == [n |-> 0, d |-> 0]

Frac(n, d) ==
    LET g == Gcd(Abs(n), d)
    IN  [n |-> n \div g, d |-> d \div g]

\* the value of a numeric literal
LitVal(s) ==
    LET dot == LastIndexOf(s, ".")
        ip  == IF dot = 0 THEN s ELSE SubSeq(s, 1, dot - 1)
        fp  == IF dot = 0 THEN <<>> ELSE SliceFrom(s, dot)
    IN  Frac(NatOf(ip \o fp), Pow10(Len(fp)))

\* the JS operators + - * / % on finite numbers; x/0 and x%0 are not finite,
\* and % takes the sign of the dividend
Apply(op, a, b) ==
    IF a.d = 0 \/ b.d = 0 THEN NotFinite
    ELSE CASE op = "+" -> Frac(a.n * b.d + b.n * a.d, a.d * b.d)
           [] op = "-" -> Frac(a.n * b.d - b.n * a.d, a.d * b.d)
           [] op = "*" -> Frac(a.n * b.n, a.d * b.d)
           [] op = "/" -> IF b.n = 0 THEN NotFinite
                          ELSE Frac((IF b.n < 0 THEN 0 - 1 ELSE 1) * a.n * b.d,
                                    a.d * Abs(b.n))
           [] op = "%" -> IF b.n = 0 THEN NotFinite
                          ELSE LET x == Abs(a.n) * b.d
                                   y == Abs(b.n) * a.d
                               IN  Frac((IF a.n < 0 THEN 0 - 1 ELSE 1) * (x % y),
                                        a.d * b.d)

RECURSIVE Tokens(_, _)
\* the expression cut at its operator characters: operand, operator, operand, ...
Tokens(s, cur) ==
    IF s = <<>> THEN <<cur>>
    ELSE IF s[1] \in Operators THEN <<cur, <<s[1]>>>> \o Tokens(Tail(s), <<>>)
    ELSE Tokens(Tail(s), cur \o <<s[1]>>)

\* a leading + or - is a unary operator on the first operand
HasSign(expr) == expr # <<>> /\ expr[1] \in {"+", "-"}

\* what the parser accepts of the expressions the keys can build: an optional
\* sign, then numeric literals separated by single operators
Parses(expr) ==
    LET toks == Tokens(IF HasSign(expr) THEN Tail(expr) ELSE expr, <<>>)
    IN  \A i \in 1..Len(toks) : i % 2 = 1 => LiteralOk(toks[i])

RECURSIVE EvalMul(_, _)
\* operand (op operand)* without + and -, left to right
EvalMul(toks, neg) ==
    IF Len(toks) = 1
    THEN LET v == LitVal(toks[1]) IN IF neg THEN [v EXCEPT !.n = 0 - v.n] ELSE v
    ELSE Apply(toks[Len(toks) - 1][1],
               EvalMul(SubSeq(toks, 1, Len(toks) - 2), neg),
               LitVal(toks[Len(toks)]))

RECURSIVE EvalAdd(_, _)
\* * / % bind tighter than + and -; equal precedence associates to the left
EvalAdd(toks, neg) ==
    LET adds == {i \in 1..Len(toks) : i % 2 = 0 /\ toks[i][1] \in {"+", "-"}}
    IN  IF adds = {} THEN EvalMul(toks, neg)
        ELSE LET k == CHOOSE i \in adds : \A j \in adds : j <= i
             IN  Apply(toks[k][1],
                       EvalAdd(SubSeq(toks, 1, k - 1), neg),
                       EvalMul(SubSeq(toks, k + 1, Len(toks)), FALSE))

RECURSIVE FracDigits(_, _, _)
\* the first k digits of rem/d after the point, as a number, by long division
FracDigits(rem, d, k) ==
    IF k = 0 THEN [digits |-> 0, rem |-> rem]
    ELSE LET r == FracDigits(rem, d, k - 1)
         IN  [digits |-> r.digits * 10 + (r.rem * 10) \div d, rem |-> (r.rem * 10) % d]

\* String(calculated), and calculated.toFixed(8).replace(/\.?0+$/, "") when
\* the fraction has more than 8 digits (lines 155-159): the fraction rounded
\* to 8 digits, half away from zero, without trailing zeros
NumberText(q) ==
    LET a    == Abs(q.n)
        ip   == a \div q.d
        f9   == FracDigits(a % q.d, q.d, 9)
        f8   == f9.digits \div 10 + (IF f9.digits % 10 >= 5 THEN 1 ELSE 0)
        ip8  == ip + f8 \div Pow10(8)
        fp   == StripZeros(Tail(NatText(Pow10(8) + (f8 % Pow10(8)))))
        sign == IF q.n < 0 THEN <<"-">> ELSE <<>>
    IN  IF a % q.d = 0 THEN sign \o NatText(ip)
        ELSE IF fp = <<>> THEN sign \o NatText(ip8)
        ELSE sign \o NatText(ip8) \o <<".">> \o fp

\* evaluateExpression 149-163: the empty expression is "0"; what the parser
\* rejects throws and is caught as "0"; NaN and the infinities are "0"
evaluateExpression(expr) ==
    IF expr = <<>> THEN <<"0">>
    ELSE IF ~Parses(expr) THEN <<"0">>
    ELSE LET toks == Tokens(IF HasSign(expr) THEN Tail(expr) ELSE expr, <<>>)
             q    == EvalAdd(toks, HasSign(expr) /\ expr[1] = "-")
         IN  IF q.d = 0 THEN <<"0">> ELSE NumberText(q)

-----------------------------------------------------------------------------
(* Observation *)

NoProbe == [code |-> <<>>, paired |-> FALSE, phase |-> "none", stored |-> Null,
            isValid |-> FALSE, own |-> FALSE, bg |-> FALSE, stale |-> FALSE]

\* the handlers whose steps are recorded by name; any other step is "other"
Observed == {"handleOperatorPress", "handleEqualsPress", "handleBackspacePress",
             "handleClearPress", "checkSecretCode", "handleAppStateChange", "handOff", "setupComplete",
             "changeCode", "restart", "unpair", "joinWithCode", "refreshMessages",
             "addMessage", "handleSend"}

\* the step just taken: the handler, its argument, isUnlocked before it, the
\* probe it resolved and the number of unlock() calls it made
Step(op, arg, p, unlocks) ==
    IF op \in Observed
    THEN [op |-> op, arg |-> arg, was |-> isUnlocked, p |-> p, unlocks |-> unlocks]
    ELSE [op |-> "other", arg |-> "", was |-> isUnlocked, p |-> NoProbe, unlocks |-> 0]

Inflight == Len(probes) + Len(ops)

RemoveAt(s, i) == SubSeq(s, 1, i - 1) \o SubSeq(s, i + 1, Len(s))

\* the probes of the focused Calculator whose buffer has been cleared under them
MarkStale(ps) == [i \in 1..Len(ps) |-> IF ps[i].own THEN [ps[i] EXCEPT !.stale = TRUE] ELSE ps[i]]

\* the probes left behind by a Calculator instance that is no longer the newest
Disown(ps) == [i \in 1..Len(ps) |-> [ps[i] EXCEPT !.own = FALSE]]

MarkBackground(ps) == [i \in 1..Len(ps) |-> [ps[i] EXCEPT !.bg = TRUE]]

Min2(a, b) == IF a <= b THEN a ELSE b

-----------------------------------------------------------------------------
(* Screen state at mount (the useState initial values) *)

\* SetupScreen 27-32: code and step come from the route parameter
SetupMount(code) ==
    [code |-> code, confirmCode |-> <<>>,
     step |-> IF code # <<>> THEN "confirm" ELSE "create", error |-> ""]

SetupDefault == SetupMount(<<>>)

\* PairingScreen 28-32
PairingDefault == [mode |-> "choose", generatedCode |-> <<>>, inputCode |-> <<>>, error |-> ""]

\* SettingsScreen 61, 75-79
SettingsDefault ==
    [showCodeModal |-> FALSE, showUnpairModal |-> FALSE, newCode |-> <<>>,
     confirmCode |-> <<>>, codeStep |-> "new", error |-> ""]

\* a screen's state lives as long as its route
Mounted(rec, default, name, after) == IF HasRoute(after, name) THEN rec ELSE default

-----------------------------------------------------------------------------
(* AppContext.tsx: lifecycle *)

AppStates == {"active", "background", "inactive"}

\* handleAppStateChange that forgets the inactive state (used to test LockOnBackground)
LeavesForegroundBackgroundOnly(nextAppState) == nextAppState = "background"

\* handleAppStateChange 42: nextAppState === "background" || nextAppState === "inactive"
LeavesForeground(nextAppState) == nextAppState = "background" \/ nextAppState = "inactive"

\* a lock that flips the session state (used to test LockIsIdempotent)
LockToggles(unl) == ~unl

\* lock 72-74 and handleAppStateChange 43: setIsUnlocked(false)
Lock(unl) == FALSE

\* a session state that survives the process (used to test LockedAtStart)
UnlockedKept(prev) == prev

\* AppProvider 25: useState(false), whatever the previous process left
UnlockedAtStart(prev) == FALSE

-----------------------------------------------------------------------------
(* CalculatorScreen.tsx: the probe *)

\* handleNumberPress 187, 195: const newCode = secretCode + value
NewCode(buf, value) == buf \o <<value>>

\* handleNumberPress 189 and checkSecretCode 166: code.length === 4
ProbeDue(code) == Len(code) = 4

\* a hand-off that passes the state variable, which does not hold the key just
\* pressed yet (used to test NewCodeProposal)
HandOffCodeStale(buf, newCode) == buf

\* handleNumberPress 190: navigation.navigate("Setup", { code: newCode })
HandOffCode(buf, newCode) == newCode

\* checkSecretCode 165-167: the call up to its await
CheckSecretCode(ps, code) ==
    IF ProbeDue(code)
    THEN Append(ps, [code |-> code, paired |-> isPaired, phase |-> "reading",
                     stored |-> Null, isValid |-> FALSE, own |-> TRUE,
                     bg |-> FALSE, stale |-> FALSE])
    ELSE ps

\* a mismatch that shows itself by leaving the calculator (used to test SilentMismatch)
AfterVerifyLoud(isValid, paired) ==
    [unlock |-> isValid, clear |-> TRUE, go |-> IF paired THEN "Chat" ELSE "Pairing"]

\* a match that leaves the buffer as it is (used to test UnlockOncePerMatch)
AfterVerifyKeepsBuffer(isValid, paired) ==
    IF isValid THEN [unlock |-> TRUE, clear |-> FALSE, go |-> IF paired THEN "Chat" ELSE "Pairing"]
    ELSE [unlock |-> FALSE, clear |-> TRUE, go |-> "none"]

\* checkSecretCode 168-179, after the await: what the continuation does
AfterVerify(isValid, paired) ==
    IF isValid THEN [unlock |-> TRUE, clear |-> TRUE, go |-> IF paired THEN "Chat" ELSE "Pairing"]
    ELSE [unlock |-> FALSE, clear |-> TRUE, go |-> "none"]

\* handleNumberPress 200-209: a second decimal point in the current operand
RejectsPoint(expr, value) ==
    /\ value = "."
    /\ Includes(expr, ".")
    /\ LET lastOperatorIndex ==
               Max2(Max2(LastIndexOf(expr, "+"), LastIndexOf(expr, "-")),
                    Max2(LastIndexOf(expr, "*"), LastIndexOf(expr, "/")))
           lastNumber == SliceFrom(expr, lastOperatorIndex)
       IN  Includes(lastNumber, ".")

\* handleNumberPress 183-214
\* a display fed from the probe buffer instead of the expression
ShowsProbe(expr, value) == secretCode \o <<value>>

\* handleNumberPress 211: const newExpr = expression + value
Appended(expr, value) == expr \o <<value>>

HandleNumberPress(value) ==
    /\ Top(nav) = "Calculator"
    /\ Len(expression) < MaxExpr
    /\ Len(secretCode) < MaxBuf
    /\ IsEntry(secretCode \o <<value>>)
    /\ LET newCode == NewCode(secretCode, value)
           handOff == ~isSetupComplete /\ ProbeDue(newCode)
           newExpr == Appended(expression, value)
       IN  /\ (ProbeDue(newCode) => Len(nav) + Len(probes) < MaxNav)
           /\ (isSetupComplete /\ ProbeDue(newCode) => Inflight < MaxInflight)
           /\ IF handOff
              THEN /\ nav' = Navigate(nav, "Setup")
                   /\ setup' = SetupMount(HandOffCode(secretCode, newCode))
                   /\ secretCode' = <<>>
                   /\ typed' = <<>>
                   /\ probes' = MarkStale(probes)
                   /\ UNCHANGED <<expression, result>>
              ELSE /\ secretCode' = newCode
                   /\ typed' = typed \o <<value>>
                   /\ probes' = IF isSetupComplete THEN CheckSecretCode(probes, newCode)
                                ELSE probes
                   /\ IF RejectsPoint(expression, value)
                      THEN UNCHANGED <<expression, result>>
                      ELSE /\ expression' = newExpr
                           /\ result' = evaluateExpression(newExpr)
                   /\ UNCHANGED <<nav, setup>>
    /\ UNCHANGED backendVars
    /\ last' = Step(IF ~isSetupComplete /\ ProbeDue(secretCode \o <<value>>)
                     THEN "handOff" ELSE "handleNumberPress", value, NoProbe, 0)
    /\ UNCHANGED <<storeVars, appVars, initPc, pairing, settings, ops, clock, fails>>

\* a clear that forgets the expression and leaves the probe buffer as it is
ClearKeepsProbe == [secretCode |-> secretCode, expression |-> <<>>, result |-> <<"0">>]

\* handleClearPress 246-248: the three values it sets
Cleared == [secretCode |-> <<>>, expression |-> <<>>, result |-> <<"0">>]

\* handleClearPress 245-250
HandleClearPress ==
    /\ Top(nav) = "Calculator"
    /\ secretCode' = Cleared.secretCode
    /\ expression' = Cleared.expression
    /\ result' = Cleared.result
    /\ typed' = <<>>
    /\ probes' = MarkStale(probes)
    /\ UNCHANGED backendVars
    /\ last' = Step("handleClearPress", "", NoProbe, 0)
    /\ UNCHANGED <<storeVars, appVars, initPc, nav, screenVars, ops, clock, fails>>

\* an operator key that appends whatever the expression ends with
AlwaysAppends(expr, op) == expr \o <<op>>

\* handleOperatorPress 223-229: an operator after an operator replaces it
OperatorPressed(expr, op) ==
    LET lastChar == expr[Len(expr)]
    IN  IF lastChar \in Operators THEN DropLast(expr) \o <<op>> ELSE expr \o <<op>>

\* handleOperatorPress 216-232: the probe buffer is cleared; an empty
\* expression stays empty; the result is not evaluated again
HandleOperatorPress(op) ==
    /\ Top(nav) = "Calculator"
    /\ expression # <<>> => Len(OperatorPressed(expression, op)) <= MaxExpr
    /\ secretCode' = <<>>
    /\ typed' = <<>>
    /\ probes' = MarkStale(probes)
    /\ expression' = IF expression = <<>> THEN expression
                     ELSE OperatorPressed(expression, op)
    /\ UNCHANGED backendVars
    /\ last' = Step("handleOperatorPress", op, NoProbe, 0)
    /\ UNCHANGED <<result, storeVars, appVars, initPc, nav, screenVars, ops, clock, fails>>

\* an evaluation that hands the expression back as it is
EchoExpression(expr) == expr

\* handleEqualsPress 238-240: the value that replaces expression and result
FinalResult(expr) == evaluateExpression(expr)

\* handleEqualsPress 234-243
HandleEqualsPress ==
    /\ Top(nav) = "Calculator"
    /\ secretCode' = <<>>
    /\ typed' = <<>>
    /\ probes' = MarkStale(probes)
    /\ IF expression # <<>>
       THEN /\ expression' = FinalResult(expression)
            /\ result' = FinalResult(expression)
       ELSE UNCHANGED <<expression, result>>
    /\ UNCHANGED backendVars
    /\ last' = Step("handleEqualsPress", expression, NoProbe, 0)
    /\ UNCHANGED <<storeVars, appVars, initPc, nav, screenVars, ops, clock, fails>>

\* handleBackspacePress 252-261
HandleBackspacePress ==
    /\ Top(nav) = "Calculator"
    /\ secretCode' = <<>>
    /\ typed' = <<>>
    /\ probes' = MarkStale(probes)
    /\ IF Len(expression) > 0
       THEN LET newExpr == DropLast(expression)
            IN  /\ expression' = newExpr
                /\ result' = IF newExpr # <<>> THEN evaluateExpression(newExpr)
                              ELSE <<"0">>
       ELSE UNCHANGED <<expression, result>>
    /\ UNCHANGED backendVars
    /\ last' = Step("handleBackspacePress", "", NoProbe, 0)
    /\ UNCHANGED <<storeVars, appVars, initPc, nav, screenVars, ops, clock, fails>>

\* verifyUnlockCode 63-66: the read of the secret store settles
VerifyRead(i) ==
    /\ i \in 1..Len(probes)
    /\ probes[i].phase = "reading"
    /\ probes' = [probes EXCEPT ![i] =
                    [@ EXCEPT !.phase = "read",
                              !.stored = secureStore.unlock_code,
                              !.isValid = VerifyUnlockCode(secureStore.unlock_code,
                                                           probes[i].code)]]
    /\ UNCHANGED backendVars
    /\ last' = Step("verifyUnlockCode", "", NoProbe, 0)
    /\ UNCHANGED <<storeVars, appVars, initPc, nav, calcVars, screenVars, ops, clock, typed, fails>>

\* verifyUnlockCode: the read fails; checkSecretCode rejects and nothing after
\* its await runs
VerifyFail(i) ==
    /\ i \in 1..Len(probes)
    /\ probes[i].phase = "reading"
    /\ probes' = RemoveAt(probes, i)
    /\ UNCHANGED backendVars
    /\ last' = Step("verifyUnlockCode-failed", "", NoProbe, 0)
    /\ UNCHANGED <<storeVars, appVars, initPc, nav, calcVars, screenVars, ops, clock, typed, fails>>

\* checkSecretCode 168-179: the continuation after the await
ResolveProbe(i) ==
    /\ i \in 1..Len(probes)
    /\ probes[i].phase = "read"
    /\ LET p     == probes[i]
           out   == AfterVerify(p.isValid, p.paired)
           unl   == out.unlock \/ isUnlocked
           mid   == IF out.go = "none" THEN nav ELSE Navigate(nav, out.go)
           after == RunEffects(mid, unl, isPaired)
           rest  == RemoveAt(probes, i)
       IN  /\ isUnlocked' = unl
           /\ nav' = after
           /\ secretCode' = IF p.own /\ out.clear THEN <<>> ELSE secretCode
           /\ probes' = IF p.own /\ out.clear THEN MarkStale(rest) ELSE rest
           /\ typed' = IF p.own THEN <<>> ELSE typed
           /\ fails' = IF p.isValid THEN fails ELSE Min2(fails + 1, MaxFails)
           /\ UNCHANGED backendVars
           /\ last' = Step("checkSecretCode", "", p, IF out.unlock THEN 1 ELSE 0)
    /\ UNCHANGED <<storeVars, isPaired, isSetupComplete, deviceId, pairedWith, messages,
                   initPc, expression, result, screenVars, ops, clock>>

-----------------------------------------------------------------------------
(* Arriving at a new Calculator instance *)

\* CalculatorScreen 137-139: the state of a Calculator that has just mounted
FreshCalc ==
    /\ expression' = <<>>
    /\ result' = <<"0">>
    /\ secretCode' = <<>>
    /\ typed' = <<>>

\* the Calculator state after navigation: a new instance on top starts fresh and
\* the pending probes belong to the instance left behind
Arrive(after, ps) ==
    IF NewCalc(nav, after)
    THEN FreshCalc /\ probes' = Disown(ps)
    ELSE UNCHANGED <<calcVars, typed>> /\ probes' = ps

\* the screens that are still mounted keep their state
KeepScreens(after) ==
    /\ setup' = Mounted(setup, SetupDefault, "Setup", after)
    /\ pairing' = Mounted(pairing, PairingDefault, "Pairing", after)
    /\ settings' = Mounted(settings, SettingsDefault, "Settings", after)

-----------------------------------------------------------------------------
(* AppContext.tsx: initialisation, lifecycle, lock *)

\* handleAppStateChange 41-45, together with the listener SettingsScreen 63-74
\* registers while it is focused (lock(); navigation.replace("Calculator"))
HandleAppStateChange(nextAppState) ==
    LET inSettings == Top(nav) = "Settings"
                      /\ (nextAppState = "background" \/ nextAppState = "inactive")
        unl   == IF LeavesForeground(nextAppState) \/ inSettings THEN Lock(isUnlocked)
                 ELSE isUnlocked
        mid   == IF inSettings THEN ReplaceFrom(nav, "Settings", "Calculator") ELSE nav
        after == RunEffects(mid, unl, isPaired)
    IN  /\ isUnlocked' = unl
        /\ nav' = after
        /\ Arrive(after, IF nextAppState = "active" THEN probes ELSE MarkBackground(probes))
        /\ KeepScreens(after)
        /\ UNCHANGED backendVars
        /\ last' = Step("handleAppStateChange", nextAppState, NoProbe, 0)
        /\ UNCHANGED <<storeVars, isPaired, isSetupComplete, deviceId, pairedWith, messages,
                       initPc, ops, clock, fails>>

\* a getDeviceId that draws a new identifier at every start (used to test
\* DeviceIdOnce)
AlwaysNewId(stored, uuid) == uuid

\* getDeviceId 47-52: the stored identifier, or a new one when none is stored
GetDeviceId(stored, uuid) == IF stored = NoId THEN uuid ELSE stored

\* getDeviceId 46-53 and initializeApp 49-50
InitGetDeviceId(uuid) ==
    /\ initPc = "getDeviceId"
    /\ LET stored == secureStore.device_id
           id == GetDeviceId(stored, uuid)
       IN  /\ secureStore' = [secureStore EXCEPT !.device_id = id]
           /\ deviceId' = id
    /\ initPc' = "isSetupComplete"
    /\ UNCHANGED backendVars
    /\ last' = Step("initializeApp", "getDeviceId", NoProbe, 0)
    /\ UNCHANGED <<bulkStore, isUnlocked, isPaired, isSetupComplete, pairedWith, messages,
                   nav, calcVars, probes, screenVars, ops, clock, typed, fails>>

\* initializeApp 52-53
InitIsSetupComplete ==
    /\ initPc = "isSetupComplete"
    /\ isSetupComplete' = ParseSetupComplete(bulkStore.is_setup_complete)
    /\ initPc' = "getPairedWith"
    /\ UNCHANGED backendVars
    /\ last' = Step("initializeApp", "isSetupComplete", NoProbe, 0)
    /\ UNCHANGED <<storeVars, isUnlocked, isPaired, deviceId, pairedWith, messages,
                   nav, calcVars, probes, screenVars, ops, clock, typed, fails>>

\* initializeApp 55-59
InitGetPairedWith ==
    /\ initPc = "getPairedWith"
    /\ LET paired == bulkStore.paired_with
           after  == RunEffects(nav, isUnlocked, Truthy(paired))
       IN  /\ isPaired' = Truthy(paired)
           /\ pairedWith' = paired
           /\ initPc' = IF Truthy(paired) THEN "getMessages" ELSE "done"
           /\ nav' = after
           /\ Arrive(after, probes)
           /\ KeepScreens(after)
    /\ UNCHANGED backendVars
    /\ last' = Step("initializeApp", "getPairedWith", NoProbe, 0)
    /\ UNCHANGED <<storeVars, isUnlocked, isSetupComplete, deviceId, messages,
                   ops, clock, fails>>

\* initializeApp 60-61
InitGetMessages ==
    /\ initPc = "getMessages"
    /\ messages' = GetMessages(bulkStore)
    /\ initPc' = "done"
    /\ UNCHANGED backendVars
    /\ last' = Step("initializeApp", "getMessages", NoProbe, 0)
    /\ UNCHANGED <<storeVars, isUnlocked, isPaired, isSetupComplete, deviceId, pairedWith,
                   nav, calcVars, probes, screenVars, ops, clock, typed, fails>>

\* initializeApp 63-65: a storage call rejects, the catch logs it
InitFail ==
    /\ initPc \in {"getDeviceId", "isSetupComplete", "getPairedWith", "getMessages"}
    /\ initPc' = "failed"
    /\ UNCHANGED backendVars
    /\ last' = Step("initializeApp", "failed", NoProbe, 0)
    /\ UNCHANGED <<storeVars, appVars, nav, calcVars, probes, screenVars, ops, clock,
                   typed, fails>>

\* the process ends and starts again: the stores stay, everything else is rebuilt
Restart ==
    /\ isUnlocked' = UnlockedAtStart(isUnlocked)
    /\ isPaired' = FALSE
    /\ isSetupComplete' = FALSE
    /\ deviceId' = NoId
    /\ pairedWith' = Null
    /\ messages' = <<>>
    /\ initPc' = "getDeviceId"
    /\ nav' = <<"Calculator">>
    /\ FreshCalc
    /\ probes' = <<>>
    /\ ops' = <<>>
    /\ setup' = SetupDefault
    /\ pairing' = PairingDefault
    /\ settings' = SettingsDefault
    /\ UNCHANGED backendVars
    /\ last' = Step("restart", "", NoProbe, 0)
    /\ UNCHANGED <<storeVars, clock, fails>>

-----------------------------------------------------------------------------
(* Controller operations in flight: [op, pc, arg, tmp] *)

Op(name, pc, arg) == [op |-> name, pc |-> pc, arg |-> arg, tmp |-> <<>>]

At(i, name, pc) == i \in 1..Len(ops) /\ ops[i].op = name /\ ops[i].pc = pc

\* a storage call of an operation in flight rejects: the operation ends there,
\* nothing after its await runs
OpFail(i) ==
    /\ i \in 1..Len(ops)
    /\ ops' = RemoveAt(ops, i)
    /\ UNCHANGED backendVars
    /\ last' = Step("storage-failed", ops[i].op, NoProbe, 0)
    /\ UNCHANGED <<storeVars, appVars, initPc, nav, calcVars, probes, screenVars, clock,
                   typed, fails>>

-----------------------------------------------------------------------------
(* SetupScreen.tsx *)

\* handleNumberPress 49-78.  The create step is entered only when the route
\* carries no code, and CalculatorScreen 190 always passes one, so the timer
\* of line 58 is never armed; setup.step stays "confirm".
SetupNumberPress(num) ==
    /\ Top(nav) = "Setup"
    /\ LET newCode    == setup.code \o <<num>>
           newConfirm == setup.confirmCode \o <<num>>
           complete   == setup.step = "confirm" /\ Len(setup.confirmCode) < 4
                         /\ Len(newConfirm) = 4 /\ newConfirm = setup.code
       IN  /\ (complete => Inflight < MaxInflight)
           /\ setup' =
                IF setup.step = "create"
                THEN IF Len(setup.code) < 4
                     THEN [setup EXCEPT !.code = newCode, !.error = ""]
                     ELSE [setup EXCEPT !.error = ""]
                ELSE IF Len(setup.confirmCode) < 4
                     THEN IF Len(newConfirm) = 4 /\ newConfirm # setup.code
                          THEN [setup EXCEPT !.confirmCode = <<>>,
                                             !.error = "Codes don't match. Try again."]
                          ELSE [setup EXCEPT !.confirmCode = newConfirm, !.error = ""]
                     ELSE [setup EXCEPT !.error = ""]
           \* handleComplete 89-90: setupComplete(finalCode), up to its first await
           /\ ops' = IF complete
                     THEN Append(ops, Op("setupComplete", "setUnlockCode", setup.code))
                     ELSE ops
    /\ UNCHANGED backendVars
    /\ last' = Step("Setup.handleNumberPress", num, NoProbe, 0)
    /\ UNCHANGED <<storeVars, appVars, initPc, nav, calcVars, probes, pairing, settings,
                   clock, typed, fails>>

\* handleDelete 80-87
SetupDelete ==
    /\ Top(nav) = "Setup"
    /\ setup' = IF setup.step = "create"
                THEN [setup EXCEPT !.code = DropLast(@)]
                ELSE [setup EXCEPT !.confirmCode = DropLast(@)]
    /\ UNCHANGED backendVars
    /\ last' = Step("Setup.handleDelete", "", NoProbe, 0)
    /\ UNCHANGED <<storeVars, appVars, initPc, nav, calcVars, probes, pairing, settings,
                   ops, clock, typed, fails>>

\* a write of the code that resolves without storing anything
StoresNothing(code) == Null

\* setUnlockCode (storage.ts 55-57): the value the secret store holds afterwards
StoredCode(code) == code

\* setupComplete 77: Storage.setUnlockCode(code) settles
SetupWriteCode(i) ==
    /\ At(i, "setupComplete", "setUnlockCode")
    /\ secureStore' = [secureStore EXCEPT !.unlock_code = StoredCode(ops[i].arg)]
    /\ ops' = [ops EXCEPT ![i].pc = "setSetupComplete"]
    /\ UNCHANGED backendVars
    /\ last' = Step("setupComplete", "setUnlockCode", NoProbe, 0)
    /\ UNCHANGED <<bulkStore, appVars, initPc, nav, calcVars, probes, screenVars, clock,
                   typed, fails>>

\* setupComplete 78-79: Storage.setSetupComplete(true) settles, then
\* handleComplete 91: navigation.replace("Pairing")
SetupWriteFlag(i) ==
    /\ At(i, "setupComplete", "setSetupComplete")
    /\ bulkStore' = [bulkStore EXCEPT !.is_setup_complete = "true"]
    /\ isSetupComplete' = TRUE
    /\ ops' = RemoveAt(ops, i)
    /\ LET after == RunEffects(ReplaceFrom(nav, "Setup", "Pairing"), isUnlocked, isPaired)
       IN  /\ nav' = after
           /\ Arrive(after, probes)
           /\ KeepScreens(after)
    /\ UNCHANGED backendVars
    /\ last' = Step("setupComplete", "setSetupComplete", NoProbe, 0)
    /\ UNCHANGED <<secureStore, isUnlocked, isPaired, deviceId, pairedWith, messages,
                   initPc, clock, fails>>

-----------------------------------------------------------------------------
(* PairingScreen.tsx *)

\* the texts Math.random().toString(36) yields in this model: a fraction with
\* more than six base-36 digits, the one-digit fraction of 0.5 and the text of 0
RandomTexts == {<<"0", ".", "k", "7", "q", "2", "m", "9", "x", "4">>,
                <<"0", ".", "i">>,
                <<"0">>}

\* the texts typed into the pairing-code input
InputTexts == {<<"a", "b", "c", "1", "2", "3">>}

\* String.prototype.toUpperCase on the letters used
UpperChar(c) ==
    CASE c = "a" -> "A" [] c = "b" -> "B" [] c = "c" -> "C" [] c = "i" -> "I"
      [] c = "k" -> "K" [] c = "m" -> "M" [] c = "q" -> "Q" [] c = "x" -> "X"
      [] OTHER -> c

ToUpperCase(s) == [i \in 1..Len(s) |-> UpperChar(s[i])]

\* s.substring(a, b) for 0 <= a <= b, 0-based, b exclusive
Substring(s, a, b) == SubSeq(s, Min2(a, Len(s)) + 1, Min2(b, Len(s)))

\* generatePairingCode (storage.ts 69): substring(2, 8).toUpperCase() of the
\* random text
PairingCodeOf(text) == ToUpperCase(Substring(text, 2, 8))

\* the codes generatePairingCode yields here
GenCodes == {PairingCodeOf(t) : t \in RandomTexts}

\* handleGenerate 40-45, up to the await
HandleGenerate(code) ==
    /\ Top(nav) = "Pairing"
    /\ pairing.mode = "choose"
    /\ Inflight < MaxInflight
    /\ ops' = Append(ops, Op("generatePairingCode", "setItem", code))
    /\ UNCHANGED backendVars
    /\ last' = Step("handleGenerate", "", NoProbe, 0)
    /\ UNCHANGED <<storeVars, appVars, initPc, nav, calcVars, probes, screenVars, clock,
                   typed, fails>>

\* generatePairingCode (storage.ts 68-72) settles; handleGenerate 43-44
GenerateDone(i) ==
    /\ At(i, "generatePairingCode", "setItem")
    /\ bulkStore' = [bulkStore EXCEPT !.pairing_code = ops[i].arg]
    /\ pairing' = IF HasRoute(nav, "Pairing")
                  THEN [pairing EXCEPT !.generatedCode = ops[i].arg, !.mode = "generate"]
                  ELSE pairing
    /\ ops' = RemoveAt(ops, i)
    /\ UNCHANGED backendVars
    /\ last' = Step("generatePairingCode", "", NoProbe, 0)
    /\ UNCHANGED <<secureStore, appVars, initPc, nav, calcVars, probes, setup, settings,
                   clock, typed, fails>>

\* handleJoinMode 54-57 and the Go Back buttons (setMode("choose"))
SetPairingMode(mode) ==
    /\ Top(nav) = "Pairing"
    /\ pairing.mode # mode
    /\ (mode = "join" => pairing.mode = "choose")
    /\ pairing' = [pairing EXCEPT !.mode = mode]
    /\ UNCHANGED backendVars
    /\ last' = Step("setMode", mode, NoProbe, 0)
    /\ UNCHANGED <<storeVars, appVars, initPc, nav, calcVars, probes, setup, settings,
                   ops, clock, typed, fails>>

\* the pairing-code input, onChangeText 176-179
ChangeInputCode(text) ==
    /\ Top(nav) = "Pairing"
    /\ pairing.mode = "join"
    /\ pairing' = [pairing EXCEPT !.inputCode = ToUpperCase(text), !.error = ""]
    /\ UNCHANGED backendVars
    /\ last' = Step("onChangeText", "", NoProbe, 0)
    /\ UNCHANGED <<storeVars, appVars, initPc, nav, calcVars, probes, setup, settings,
                   ops, clock, typed, fails>>

\* handleJoin 59-67, up to the await; the Join button is disabled below 6 characters
HandleJoin ==
    /\ Top(nav) = "Pairing"
    /\ pairing.mode = "join"
    /\ Len(pairing.inputCode) >= 6
    /\ Inflight < MaxInflight
    /\ IF Len(pairing.inputCode) < 6
       THEN /\ pairing' = [pairing EXCEPT !.error = "Please enter a valid 6-character code"]
            /\ UNCHANGED ops
       ELSE /\ ops' = Append(ops, Op("joinWithCode", "setPairedWith",
                                     ToUpperCase(pairing.inputCode)))
            /\ UNCHANGED pairing
    /\ UNCHANGED backendVars
    /\ last' = Step("handleJoin", "", NoProbe, 0)
    /\ UNCHANGED <<storeVars, appVars, initPc, nav, calcVars, probes, setup, settings,
                   clock, typed, fails>>

\* handleContinue 77-78, up to the await
HandleContinue ==
    /\ Top(nav) = "Pairing"
    /\ pairing.mode = "generate"
    /\ Inflight < MaxInflight
    /\ ops' = Append(ops, Op("joinWithCode", "setPairedWith", pairing.generatedCode))
    /\ UNCHANGED backendVars
    /\ last' = Step("handleContinue", "", NoProbe, 0)
    /\ UNCHANGED <<storeVars, appVars, initPc, nav, calcVars, probes, screenVars, clock,
                   typed, fails>>

\* joinWithCode (AppContext 87-92) settles; then navigation.replace("Chat")
\* (handleJoin 70, handleContinue 80)
JoinDone(i) ==
    /\ At(i, "joinWithCode", "setPairedWith")
    /\ bulkStore' = [bulkStore EXCEPT !.paired_with = ops[i].arg]
    /\ isPaired' = TRUE
    /\ pairedWith' = ops[i].arg
    /\ ops' = RemoveAt(ops, i)
    /\ LET after == RunEffects(ReplaceFrom(nav, "Pairing", "Chat"), isUnlocked, TRUE)
       IN  /\ nav' = after
           /\ Arrive(after, probes)
           /\ KeepScreens(after)
    /\ UNCHANGED backendVars
    /\ last' = Step("joinWithCode", "", NoProbe, 0)
    /\ UNCHANGED <<secureStore, isUnlocked, isSetupComplete, deviceId, messages, initPc,
                   clock, fails>>

-----------------------------------------------------------------------------
(* ChatScreen.tsx and the message operations of AppContext.tsx *)

\* the message texts sent
Texts == {"hi"}

\* a message that does not name its sender (used to test SendRefreshRoundTrip)
NewMessageUnsigned(text, now) ==
    [id |-> now, text |-> text, senderId |-> NoId, timestamp |-> now, status |-> "sent"]

\* sendMessage 104-110: the message built from the text, the device id and the clock
NewMessage(text, now) ==
    [id |-> now, text |-> text, senderId |-> deviceId, timestamp |-> now, status |-> "sent"]

\* a sendMessage that does not look at the device id (used to test NoSendWithoutId)
AnyDeviceId(id) == TRUE

\* sendMessage 102: if (!deviceId) return
HasDeviceId(id) == id # NoId

\* sendMessage 101-112, up to the await inside addMessage
HandleSend(text) ==
    /\ Top(nav) = "Chat"
    /\ clock < MaxMsgs
    /\ Inflight < MaxInflight
    /\ IF ~HasDeviceId(deviceId)
       THEN UNCHANGED <<ops, clock>>
       ELSE /\ ops' = Append(ops, Op("sendMessage", "getMessages",
                                     NewMessage(text, clock + 1)))
            /\ clock' = clock + 1
    /\ UNCHANGED backendVars
    /\ last' = Step("handleSend", text, NoProbe, 0)
    /\ UNCHANGED <<storeVars, appVars, initPc, nav, calcVars, probes, screenVars, typed,
                   fails>>

\* addMessage (storage.ts 110-112): getMessages settles, the message is pushed
SendRead(i) ==
    /\ At(i, "sendMessage", "getMessages")
    /\ ops' = [ops EXCEPT ![i].pc = "saveMessages",
                          ![i].tmp = Append(GetMessages(bulkStore), ops[i].arg)]
    /\ UNCHANGED backendVars
    /\ last' = Step("addMessage", "getMessages", NoProbe, 0)
    /\ UNCHANGED <<storeVars, appVars, initPc, nav, calcVars, probes, screenVars, clock,
                   typed, fails>>

\* addMessage (storage.ts 113-114): saveMessages settles; sendMessage 113
SendWrite(i) ==
    /\ At(i, "sendMessage", "saveMessages")
    /\ bulkStore' = [bulkStore EXCEPT !.messages = [present |-> TRUE, list |-> ops[i].tmp]]
    /\ messages' = ops[i].tmp
    /\ ops' = RemoveAt(ops, i)
    /\ UNCHANGED backendVars
    /\ last' = Step("addMessage", "saveMessages", NoProbe, 0)
    /\ UNCHANGED <<secureStore, isUnlocked, isPaired, isSetupComplete, deviceId, pairedWith,
                   initPc, nav, calcVars, probes, screenVars, clock, typed, fails>>

\* refreshMessages 116-119, up to the await
RefreshMessages ==
    /\ initPc = "done"
    /\ Inflight < MaxInflight
    /\ ops' = Append(ops, Op("refreshMessages", "getMessages", <<>>))
    /\ UNCHANGED backendVars
    /\ last' = Step("refreshMessages", "", NoProbe, 0)
    /\ UNCHANGED <<storeVars, appVars, initPc, nav, calcVars, probes, screenVars, clock,
                   typed, fails>>

\* refreshMessages 117-118: getMessages settles
RefreshDone(i) ==
    /\ At(i, "refreshMessages", "getMessages")
    /\ messages' = GetMessages(bulkStore)
    /\ ops' = RemoveAt(ops, i)
    /\ UNCHANGED backendVars
    /\ last' = Step("refreshMessages", "getMessages", NoProbe, 0)
    /\ UNCHANGED <<storeVars, isUnlocked, isPaired, isSetupComplete, deviceId, pairedWith,
                   initPc, nav, calcVars, probes, screenVars, clock, typed, fails>>

\* handleSettings 99-102
HandleSettings ==
    /\ Top(nav) = "Chat"
    /\ Len(nav) + Len(probes) < MaxNav
    /\ nav' = Navigate(nav, "Settings")
    /\ UNCHANGED backendVars
    /\ last' = Step("handleSettings", "", NoProbe, 0)
    /\ UNCHANGED <<storeVars, appVars, initPc, calcVars, probes, screenVars, ops, clock,
                   typed, fails>>

\* lock() (AppContext 72-74) followed by navigation.replace("Calculator"):
\* ChatScreen handleLock 104-108, SettingsScreen handleLockExit 125-129
LockAndExit(screen) ==
    /\ Top(nav) = screen
    /\ screen = "Settings" => ~settings.showCodeModal /\ ~settings.showUnpairModal
    /\ isUnlocked' = Lock(isUnlocked)
    /\ LET after == RunEffects(ReplaceFrom(nav, screen, "Calculator"), Lock(isUnlocked),
                               isPaired)
       IN  /\ nav' = after
           /\ Arrive(after, probes)
           /\ KeepScreens(after)
    /\ UNCHANGED backendVars
    /\ last' = Step("lock", screen, NoProbe, 0)
    /\ UNCHANGED <<storeVars, isPaired, isSetupComplete, deviceId, pairedWith, messages,
                   initPc, ops, clock, fails>>

-----------------------------------------------------------------------------
(* SettingsScreen.tsx *)

\* the texts typed into the code input of the change-code modal
CodeTexts == {<<"2", "1", "2", "1">>, <<"2", "a", "1", "2">>}

\* an input that keeps every character typed (used to test FourDigitCode)
KeepAll(s) == s

RECURSIVE OnlyDigits(_)
\* text.replace(/\D/g, "")
OnlyDigits(s) ==
    IF s = <<>> THEN <<>>
    ELSE IF s[1] \in Digits THEN <<s[1]>> \o OnlyDigits(Tail(s))
    ELSE OnlyDigits(Tail(s))

\* s.slice(0, 4)
First4(s) == SubSeq(s, 1, Min2(4, Len(s)))

NoModal == ~settings.showCodeModal /\ ~settings.showUnpairModal

\* handleChangeCode 81-88
HandleChangeCode ==
    /\ Top(nav) = "Settings"
    /\ NoModal
    /\ settings' = [settings EXCEPT !.showCodeModal = TRUE, !.codeStep = "new",
                                    !.newCode = <<>>, !.confirmCode = <<>>, !.error = ""]
    /\ UNCHANGED backendVars
    /\ last' = Step("handleChangeCode", "", NoProbe, 0)
    /\ UNCHANGED <<storeVars, appVars, initPc, nav, calcVars, probes, setup, pairing, ops,
                   clock, typed, fails>>

\* the code input, onChangeText 212-220
ChangeCodeInput(text) ==
    /\ Top(nav) = "Settings"
    /\ settings.showCodeModal
    /\ LET digits == First4(OnlyDigits(text))
       IN  settings' = IF settings.codeStep = "new"
                       THEN [settings EXCEPT !.newCode = digits, !.error = ""]
                       ELSE [settings EXCEPT !.confirmCode = digits, !.error = ""]
    /\ UNCHANGED backendVars
    /\ last' = Step("Settings.onChangeText", "", NoProbe, 0)
    /\ UNCHANGED <<storeVars, appVars, initPc, nav, calcVars, probes, setup, pairing, ops,
                   clock, typed, fails>>

\* a confirmation that is not compared
AnyConfirmation(confirm, new) == TRUE

\* handleCodeSubmit 100: confirmCode !== newCode
CodesMatch(confirm, new) == confirm = new

\* handleCodeSubmit 90-106, up to the await
HandleCodeSubmit ==
    /\ Top(nav) = "Settings"
    /\ settings.showCodeModal
    /\ LET write == settings.codeStep = "confirm"
                    /\ CodesMatch(settings.confirmCode, settings.newCode)
       IN  /\ (write => Inflight < MaxInflight)
           /\ settings' =
                IF settings.codeStep = "new"
                THEN IF Len(settings.newCode) # 4
                     THEN [settings EXCEPT !.error = "Code must be 4 digits"]
                     ELSE [settings EXCEPT !.codeStep = "confirm", !.error = ""]
                ELSE IF ~CodesMatch(settings.confirmCode, settings.newCode)
                     THEN [settings EXCEPT !.error = "Codes don't match", !.confirmCode = <<>>]
                     ELSE settings
           /\ ops' = IF write
                     THEN Append(ops, Op("changeCode", "setUnlockCode", settings.newCode))
                     ELSE ops
    /\ UNCHANGED backendVars
    /\ last' = Step("handleCodeSubmit", "", NoProbe, 0)
    /\ UNCHANGED <<storeVars, appVars, initPc, nav, calcVars, probes, setup, pairing,
                   clock, typed, fails>>

\* handleCodeSubmit 106-108: Storage.setUnlockCode(newCode) settles
ChangeCodeDone(i) ==
    /\ At(i, "changeCode", "setUnlockCode")
    /\ secureStore' = [secureStore EXCEPT !.unlock_code = StoredCode(ops[i].arg)]
    /\ settings' = IF HasRoute(nav, "Settings")
                   THEN [settings EXCEPT !.showCodeModal = FALSE]
                   ELSE settings
    /\ ops' = RemoveAt(ops, i)
    /\ UNCHANGED backendVars
    /\ last' = Step("changeCode", "setUnlockCode", NoProbe, 0)
    /\ UNCHANGED <<bulkStore, appVars, initPc, nav, calcVars, probes, setup, pairing,
                   clock, typed, fails>>

\* handleUnpair 112-115 (open) and the Cancel buttons and onRequestClose (close)
SetModal(name, open) ==
    /\ Top(nav) = "Settings"
    /\ IF open THEN name = "unpair" /\ NoModal
       ELSE IF name = "code" THEN settings.showCodeModal ELSE settings.showUnpairModal
    /\ settings' = IF name = "code"
                   THEN [settings EXCEPT !.showCodeModal = open]
                   ELSE [settings EXCEPT !.showUnpairModal = open]
    /\ UNCHANGED backendVars
    /\ last' = Step("setModal", name, NoProbe, 0)
    /\ UNCHANGED <<storeVars, appVars, initPc, nav, calcVars, probes, setup, pairing, ops,
                   clock, typed, fails>>

\* confirmUnpair 117-118, up to the first await of Storage.unpair
ConfirmUnpair ==
    /\ Top(nav) = "Settings"
    /\ settings.showUnpairModal
    /\ Inflight < MaxInflight
    /\ ops' = Append(ops, Op("unpair", "removePairedWith", <<>>))
    /\ UNCHANGED backendVars
    /\ last' = Step("confirmUnpair", "", NoProbe, 0)
    /\ UNCHANGED <<storeVars, appVars, initPc, nav, calcVars, probes, screenVars, clock,
                   typed, fails>>

\* unpair (storage.ts 87-88): the first two removeItem calls settle in turn
UnpairRemove(i) ==
    /\ i \in 1..Len(ops)
    /\ ops[i].op = "unpair"
    /\ ops[i].pc \in {"removePairedWith", "removePairingCode"}
    /\ IF ops[i].pc = "removePairedWith"
       THEN /\ bulkStore' = [bulkStore EXCEPT !.paired_with = Null]
            /\ ops' = [ops EXCEPT ![i].pc = "removePairingCode"]
       ELSE /\ bulkStore' = [bulkStore EXCEPT !.pairing_code = Null]
            /\ ops' = [ops EXCEPT ![i].pc = "removeMessages"]
    /\ UNCHANGED backendVars
    /\ last' = Step("unpair", ops[i].pc, NoProbe, 0)
    /\ UNCHANGED <<secureStore, appVars, initPc, nav, calcVars, probes, screenVars, clock,
                   typed, fails>>

\* an unpair that leaves the collection in the store (used to test UnpairClears)
KeepMessages(store) == store

\* an unpair that resets the whole bulk store, as clearAllData would (used to
\* test SetupFlagMonotonic)
ClearAllBulk(store) == EmptyBulk

\* unpair (storage.ts 89): AsyncStorage.removeItem(KEYS.MESSAGES)
RemoveMessages(store) == [store EXCEPT !.messages = NoMessages]

\* unpair (storage.ts 89) settles; unpairDevice 96-98; confirmUnpair 119-122
UnpairDone(i) ==
    /\ At(i, "unpair", "removeMessages")
    /\ bulkStore' = RemoveMessages(bulkStore)
    /\ isPaired' = FALSE
    /\ pairedWith' = Null
    /\ messages' = <<>>
    /\ isUnlocked' = Lock(isUnlocked)
    /\ ops' = RemoveAt(ops, i)
    /\ LET after == RunEffects(ReplaceFrom(nav, "Settings", "Calculator"), FALSE, FALSE)
       IN  /\ nav' = after
           /\ Arrive(after, probes)
           /\ setup' = Mounted(setup, SetupDefault, "Setup", after)
           /\ pairing' = Mounted(pairing, PairingDefault, "Pairing", after)
           /\ settings' = Mounted([settings EXCEPT !.showUnpairModal = FALSE],
                                  SettingsDefault, "Settings", after)
    /\ UNCHANGED backendVars
    /\ last' = Step("unpair", "removeMessages", NoProbe, 0)
    /\ UNCHANGED <<secureStore, isSetupComplete, deviceId, initPc, clock, fails>>

\* the back button, 136: navigation.goBack()
GoBack ==
    /\ Top(nav) = "Settings"
    /\ NoModal
    /\ LET after == RunEffects(DropLast(nav), isUnlocked, isPaired)
       IN  /\ nav' = after
           /\ Arrive(after, probes)
           /\ KeepScreens(after)
    /\ UNCHANGED backendVars
    /\ last' = Step("goBack", "", NoProbe, 0)
    /\ UNCHANGED <<storeVars, appVars, initPc, ops, clock, fails>>

-----------------------------------------------------------------------------

Init ==
    /\ secureStore = EmptySecure
    /\ bulkStore = EmptyBulk
    /\ isUnlocked = UnlockedAtStart(FALSE)
    /\ isPaired = FALSE
    /\ isSetupComplete = FALSE
    /\ deviceId = NoId
    /\ pairedWith = Null
    /\ messages = <<>>
    /\ initPc = "getDeviceId"
    /\ nav = <<"Calculator">>
    /\ expression = <<>>
    /\ result = <<"0">>
    /\ secretCode = <<>>
    /\ probes = <<>>
    /\ setup = SetupDefault
    /\ pairing = PairingDefault
    /\ settings = SettingsDefault
    /\ ops = <<>>
    /\ clock = 0
    /\ typed = <<>>
    /\ fails = 0
    /\ users = {}
    /\ reqs = <<>>
    /\ last = [op |-> "init", arg |-> "", was |-> FALSE, p |-> NoProbe, unlocks |-> 0]

\* the unlock path: the calculator and its probes, the lifecycle, the
\* initialisation, a restart of the process and the first-run setup.  Nothing
\* pairs the device here, so initializeApp never reads the messages.
Next ==
    \/ \E v \in KeyDigits : HandleNumberPress(v)
    \/ HandleClearPress
    \/ \E i \in 1..MaxInflight : VerifyRead(i)
    \/ \E i \in 1..MaxInflight : VerifyFail(i)
    \/ \E i \in 1..MaxInflight : ResolveProbe(i)
    \/ \E a \in AppStates : HandleAppStateChange(a)
    \/ \E u \in UUIDs : InitGetDeviceId(u)
    \/ InitIsSetupComplete
    \/ InitGetPairedWith
    \/ InitFail
    \/ Restart
    \/ \E i \in 1..MaxInflight : OpFail(i)
    \/ \E d \in KeyDigits : SetupNumberPress(d)
    \/ SetupDelete
    \/ \E i \in 1..MaxInflight : SetupWriteCode(i)
    \/ \E i \in 1..MaxInflight : SetupWriteFlag(i)

\* the whole application: pairing, chat and settings on top of the unlock path
NextApp ==
    \/ Next
    \/ InitGetMessages
    \/ \E c \in GenCodes : HandleGenerate(c)
    \/ \E i \in 1..MaxInflight : GenerateDone(i)
    \/ \E m \in {"choose", "join"} : SetPairingMode(m)
    \/ \E t \in InputTexts : ChangeInputCode(t)
    \/ HandleJoin
    \/ HandleContinue
    \/ \E i \in 1..MaxInflight : JoinDone(i)
    \/ \E t \in Texts : HandleSend(t)
    \/ \E i \in 1..MaxInflight : SendRead(i)
    \/ \E i \in 1..MaxInflight : SendWrite(i)
    \/ RefreshMessages
    \/ \E i \in 1..MaxInflight : RefreshDone(i)
    \/ HandleSettings
    \/ \E sc \in {"Chat", "Settings"} : LockAndExit(sc)
    \/ HandleChangeCode
    \/ \E t \in CodeTexts : ChangeCodeInput(t)
    \/ HandleCodeSubmit
    \/ \E i \in 1..MaxInflight : ChangeCodeDone(i)
    \/ \E m \in {"code", "unpair"}, o \in BOOLEAN : SetModal(m, o)
    \/ ConfirmUnpair
    \/ \E i \in 1..MaxInflight : UnpairRemove(i)
    \/ \E i \in 1..MaxInflight : UnpairDone(i)
    \/ GoBack

Spec == Init /\ [][Next]_vars

\* the code committed by the first setup of an installed device
InstalledCode == <<"1", "2", "1", "2">>

\* the partner code an installed device has joined with
InstalledPartner == <<"A", "B", "C", "1", "2", "3">>

\* a pairing code the installed device generated before it joined
InstalledPairingCode == <<"K", "7", "Q", "2", "M", "9">>

\* the number keys pressed since the last key of another kind: the text
\* after the last of + - * / %
CurrentOperand(expr) ==
    LET ops5 == {i \in 1..Len(expr) : expr[i] \in Operators}
        k    == IF ops5 = {} THEN 0 ELSE CHOOSE i \in ops5 : \A j \in ops5 : j <= i
    IN  SubSeq(expr, k + 1, Len(expr))

\* a later launch of an installed device: the stores hold what setup and
\* pairing have committed, the process starts as AppProvider 25-30 builds it.
\* expr is what has been typed on the keypad before the initialisation has
\* read anything: numbers shorter than a code, the last key a digit, so the
\* result is the value of expr (handleNumberPress 211-213) and the probe
\* buffer holds the last number (handleNumberPress 187-188)
LaunchTyped(paired, msgs, expr) ==
    /\ secureStore = [unlock_code |-> InstalledCode, device_id |-> "uuid-1"]
    /\ bulkStore = [is_setup_complete |-> "true",
                    paired_with |-> IF paired THEN InstalledPartner ELSE Null,
                    pairing_code |-> IF paired THEN InstalledPairingCode ELSE Null,
                    messages |-> msgs]
    /\ isUnlocked = UnlockedAtStart(TRUE)
    /\ isPaired = FALSE
    /\ isSetupComplete = FALSE
    /\ deviceId = NoId
    /\ pairedWith = Null
    /\ messages = <<>>
    /\ initPc = "getDeviceId"
    /\ nav = <<"Calculator">>
    /\ expression = expr
    /\ result = evaluateExpression(expr)
    /\ secretCode = CurrentOperand(expr)
    /\ probes = <<>>
    /\ setup = SetupDefault
    /\ pairing = PairingDefault
    /\ settings = SettingsDefault
    /\ ops = <<>>
    /\ clock = 0
    /\ typed = CurrentOperand(expr)
    /\ fails = 0
    /\ users = {}
    /\ reqs = <<>>
    /\ last = [op |-> "init", arg |-> "", was |-> FALSE, p |-> NoProbe, unlocks |-> 0]

Launch(paired, msgs) == LaunchTyped(paired, msgs, <<>>)

\* the initialisation, without a failing storage call
InitSteps ==
    \/ \E u \in UUIDs : InitGetDeviceId(u)
    \/ InitIsSetupComplete
    \/ InitGetPairedWith
    \/ InitGetMessages

\* the number keys including the decimal point, and the probes
CalcSteps ==
    \/ \E v \in KeyDigits \cup {"."} : HandleNumberPress(v)
    \/ \E i \in 1..MaxInflight : VerifyRead(i)
    \/ \E i \in 1..MaxInflight : ResolveProbe(i)

\* the two ways an unlock code is written: the first-run setup and the
\* change-code dialog of Settings
CodeSteps ==
    \/ \E d \in KeyDigits : SetupNumberPress(d)
    \/ SetupDelete
    \/ \E i \in 1..MaxInflight : SetupWriteCode(i)
    \/ \E i \in 1..MaxInflight : SetupWriteFlag(i)
    \/ HandleSettings
    \/ \E sc \in {"Chat", "Settings"} : LockAndExit(sc)
    \/ HandleChangeCode
    \/ \E t \in CodeTexts : ChangeCodeInput(t)
    \/ HandleCodeSubmit
    \/ \E i \in 1..MaxInflight : ChangeCodeDone(i)
    \/ \E o \in {FALSE} : SetModal("code", o)
    \/ GoBack

NextCode == InitSteps \/ CalcSteps \/ CodeSteps

\* the life of the unlock code: a fresh install that sets it up, and an
\* installed, paired device that changes it
SpecCode == (Init \/ Launch(TRUE, NoMessages)) /\ [][NextCode]_vars

SpecApp == Init /\ [][NextApp]_vars

\* PairingScreen: generating a code, typing one, joining
PairSteps ==
    \/ \E c \in GenCodes : HandleGenerate(c)
    \/ \E i \in 1..MaxInflight : GenerateDone(i)
    \/ \E m \in {"choose", "join"} : SetPairingMode(m)
    \/ \E t \in InputTexts : ChangeInputCode(t)
    \/ HandleJoin
    \/ HandleContinue
    \/ \E i \in 1..MaxInflight : JoinDone(i)

NextPair == InitSteps \/ CalcSteps \/ PairSteps \/ LockAndExit("Chat") \/ Restart

\* the collection of a device that has sent one message
OneMessage ==
    [present |-> TRUE,
     list |-> <<[id |-> 0, text |-> "yo", senderId |-> "uuid-1", timestamp |-> 0,
                 status |-> "sent"]>>]

\* pairing: a fresh install, and an installed device, not paired yet or paired
\* with one message stored, that unlocks, pairs, and is started again
SpecPair ==
    (Init \/ Launch(FALSE, NoMessages) \/ Launch(TRUE, OneMessage)) /\ [][NextPair]_vars

\* ChatScreen and the message operations of the controller
ChatSteps ==
    \/ \E t \in Texts : HandleSend(t)
    \/ \E i \in 1..MaxInflight : SendRead(i)
    \/ \E i \in 1..MaxInflight : SendWrite(i)
    \/ RefreshMessages
    \/ \E i \in 1..MaxInflight : RefreshDone(i)
    \/ HandleSettings
    \/ \E sc \in {"Chat", "Settings"} : LockAndExit(sc)
    \/ GoBack

\* SettingsScreen: unpairing
UnpairSteps ==
    \/ \E o \in BOOLEAN : SetModal("unpair", o)
    \/ ConfirmUnpair
    \/ \E i \in 1..MaxInflight : UnpairRemove(i)
    \/ \E i \in 1..MaxInflight : UnpairDone(i)

NextChat == InitSteps \/ CalcSteps \/ ChatSteps \/ UnpairSteps

\* the conversation: a paired device with one message stored unlocks, sends,
\* refreshes and unpairs
SpecChat == Launch(TRUE, OneMessage) /\ [][NextChat]_vars

\* the first-run setup
SetupSteps ==
    \/ \E d \in KeyDigits : SetupNumberPress(d)
    \/ SetupDelete
    \/ \E i \in 1..MaxInflight : SetupWriteCode(i)
    \/ \E i \in 1..MaxInflight : SetupWriteFlag(i)

\* SettingsScreen: changing the code
ChangeCodeSteps ==
    \/ HandleChangeCode
    \/ \E t \in CodeTexts : ChangeCodeInput(t)
    \/ HandleCodeSubmit
    \/ \E i \in 1..MaxInflight : ChangeCodeDone(i)
    \/ SetModal("code", FALSE)

\* every operation of the controller after setup and the lifecycle, without
\* a restart of the process and without a failing storage call; one message
\* is sent
NextLife ==
    \/ InitSteps
    \/ \E v \in KeyDigits : HandleNumberPress(v)
    \/ \E i \in 1..MaxInflight : VerifyRead(i)
    \/ \E i \in 1..MaxInflight : ResolveProbe(i)
    \/ \E a \in {"active", "background"} : HandleAppStateChange(a)
    \/ \E c \in {InstalledPairingCode} : HandleGenerate(c)
    \/ \E i \in 1..MaxInflight : GenerateDone(i)
    \/ HandleContinue
    \/ \E i \in 1..MaxInflight : JoinDone(i)
    \/ \E t \in Texts : clock = 0 /\ HandleSend(t)
    \/ \E i \in 1..MaxInflight : SendRead(i)
    \/ \E i \in 1..MaxInflight : SendWrite(i)
    \/ RefreshMessages
    \/ \E i \in 1..MaxInflight : RefreshDone(i)
    \/ HandleSettings
    \/ \E sc \in {"Chat", "Settings"} : LockAndExit(sc)
    \/ GoBack
    \/ ChangeCodeSteps
    \/ UnpairSteps

\* the life of an installation after setup has committed, within one process:
\* a device not paired yet, and a paired device with one message stored
SpecLife == (Launch(FALSE, NoMessages) \/ Launch(TRUE, OneMessage)) /\ [][NextLife]_vars

\* sending with or without a device id: the initialisation of a paired
\* device may fail at any step; without the setup flag in memory the
\* calculator hands four digits to Setup, and Pairing follows
NextNoId ==
    \/ InitSteps
    \/ InitFail
    \/ \E v \in KeyDigits : HandleNumberPress(v)
    \/ \E i \in 1..MaxInflight : VerifyRead(i)
    \/ \E i \in 1..MaxInflight : ResolveProbe(i)
    \/ SetupSteps
    \/ SetPairingMode("join")
    \/ \E t \in InputTexts : ChangeInputCode(t)
    \/ HandleJoin
    \/ \E i \in 1..MaxInflight : JoinDone(i)
    \/ \E t \in Texts : HandleSend(t)
    \/ \E i \in 1..MaxInflight : SendRead(i)
    \/ \E i \in 1..MaxInflight : SendWrite(i)

SpecNoId == Launch(TRUE, OneMessage) /\ [][NextNoId]_vars

\* the initialisation with storage calls that may fail, on a fresh install and
\* on an installed device, while the calculator is used and the process is
\* started again; nothing but initializeApp writes the fields it loads
NextInitFail ==
    \/ InitSteps
    \/ InitFail
    \/ Restart
    \/ \E v \in KeyDigits : HandleNumberPress(v)
    \/ \E i \in 1..MaxInflight : VerifyRead(i)
    \/ \E i \in 1..MaxInflight : ResolveProbe(i)
    \/ LockAndExit("Chat")

SpecInitFail ==
    (Init \/ Launch(FALSE, NoMessages) \/ Launch(TRUE, OneMessage)) /\ [][NextInitFail]_vars

\* what Crypto.randomUUID() would return if it were called: the first
\* identifier of the install, and a different one at any later start
Draws(stored) == IF stored = NoId THEN {"uuid-1"} ELSE {"uuid-2"}

\* the device identity through the life of an install: setup, pairing, a
\* message, a change of code, unpairing, locking, and restarts of the process
NextId ==
    \/ \E u \in Draws(secureStore.device_id) : InitGetDeviceId(u)
    \/ InitIsSetupComplete
    \/ InitGetPairedWith
    \/ InitGetMessages
    \/ Restart
    \/ \E v \in KeyDigits : HandleNumberPress(v)
    \/ \E i \in 1..MaxInflight : VerifyRead(i)
    \/ \E i \in 1..MaxInflight : ResolveProbe(i)
    \/ SetupSteps
    \/ SetPairingMode("join")
    \/ \E t \in InputTexts : ChangeInputCode(t)
    \/ HandleJoin
    \/ \E i \in 1..MaxInflight : JoinDone(i)
    \/ \E t \in Texts : clock = 0 /\ HandleSend(t)
    \/ \E i \in 1..MaxInflight : SendRead(i)
    \/ \E i \in 1..MaxInflight : SendWrite(i)
    \/ HandleSettings
    \/ \E sc \in {"Chat", "Settings"} : LockAndExit(sc)
    \/ GoBack
    \/ ChangeCodeSteps
    \/ UnpairSteps

SpecId == Init /\ [][NextId]_vars

\* locking and unlocking: a paired device is unlocked by its code and locked
\* from Chat, from Settings and by the lifecycle
NextLock ==
    \/ InitSteps
    \/ \E v \in KeyDigits : HandleNumberPress(v)
    \/ \E i \in 1..MaxInflight : VerifyRead(i)
    \/ \E i \in 1..MaxInflight : ResolveProbe(i)
    \/ \E a \in AppStates : HandleAppStateChange(a)
    \/ HandleSettings
    \/ GoBack
    \/ \E sc \in {"Chat", "Settings"} : LockAndExit(sc)

SpecLock == Launch(TRUE, OneMessage) /\ [][NextLock]_vars

\* the number keys the keypad is tried with
CalcKeys == {"0", "5", "."}

\* the keypad of the calculator (BUTTONS 32-63, handleButtonPress 263-283) on
\* an installed, paired device while it starts: every kind of key, with
\* numbers too short to make up a code
NextCalc ==
    \/ InitSteps
    \/ \E v \in CalcKeys : Len(expression) < MaxCalc /\ HandleNumberPress(v)
    \/ \E op \in Operators : Len(expression) < MaxCalc /\ HandleOperatorPress(op)
    \/ HandleEqualsPress
    \/ HandleClearPress
    \/ HandleBackspacePress

SpecCalc == Launch(TRUE, OneMessage) /\ [][NextCalc]_vars

\* the decimal point among the operands of a remainder: the keys 5 and . ,
\* the % key and AC
NextPoint ==
    \/ InitSteps
    \/ \E v \in {"5", "."} : HandleNumberPress(v)
    \/ HandleOperatorPress("%")
    \/ HandleClearPress

SpecPoint == Launch(TRUE, OneMessage) /\ [][NextPoint]_vars

\* keys of both kinds on an installed, paired device: the digits of the code,
\* the keys that are not numbers, and the probes
NextSep ==
    \/ InitSteps
    \/ \E v \in KeyDigits : HandleNumberPress(v)
    \/ Len(expression) < MaxCalc /\ HandleOperatorPress("+")
    \/ Len(expression) < MaxCalc /\ HandleEqualsPress
    \/ HandleClearPress
    \/ HandleBackspacePress
    \/ \E i \in 1..MaxInflight : VerifyRead(i)
    \/ \E i \in 1..MaxInflight : ResolveProbe(i)

SpecSep == Launch(TRUE, OneMessage) /\ [][NextSep]_vars

\* the whole numbers the evaluation is tried on
IntOperands == {<<"1", "2">>, <<"8">>, <<"2">>}

\* the expressions a op b op c over them and + - * /
IntExprs ==
    {a \o <<o1>> \o b \o <<o2>> \o c :
        a \in IntOperands, b \in IntOperands, c \in IntOperands,
        o1 \in {"+", "-", "*", "/"}, o2 \in {"+", "-", "*", "/"}}

\* the evaluation of a typed expression: the equals key, and the backspace
\* key, which evaluates what is left
NextEval ==
    \/ HandleEqualsPress
    \/ HandleBackspacePress

SpecEval == (\E e \in IntExprs : LaunchTyped(TRUE, OneMessage, e)) /\ [][NextEval]_vars

-----------------------------------------------------------------------------
(* servernew/routes.js: the user service                                   *)
(*                                                                         *)
(* A request is [method, id, body, pc, status, taken].  Each handler is    *)
(* cut at its awaits on the database: the validation is part of the        *)
(* arrival, every query is a step of its own.  A row is [id, username,     *)
(* password]; the id of a new row is fresh (crypto.randomUUID, 190).       *)

\* a field the request body does not carry
Absent == "undefined"

\* the request bodies tried: two names, the empty string, one password
Bodies == [username : {"ann", "bob", "", Absent}, password : {"pw", Absent}]

\* insertUserSchema.safeParse(body).success: both fields, at least one character
insertUserSchema(body) ==
    /\ body.username \notin {"", Absent}
    /\ body.password \notin {"", Absent}

\* updateUserSchema.safeParse(body).success: each field optional, at least one character
updateUserSchema(body) ==
    /\ body.username # ""
    /\ body.password # ""

\* db.select().from(users).where(eq(users.username, username)): the rows found
getUserByUsername(username) == {u \in users : u.username = username}

\* db.select().from(users).where(eq(users.id, id)): the rows found
getUser(id) == {u \in users : u.id = id}

\* res.status(status) or next(error): the request is answered; taken tells
\* that it was turned down because the username was held by a row
Answer(i, status, taken) ==
    reqs' = [reqs EXCEPT ![i].pc = "done", ![i].status = status, ![i].taken = taken]

\* POST /users arrives: lines 61-67, and the call of getUserByUsername at 70
PostUsers(body) ==
    /\ Len(reqs) < MaxReqs
    /\ reqs' = Append(reqs, [method |-> "POST", id |-> 0, body |-> body, taken |-> FALSE,
                             pc |-> IF insertUserSchema(body) THEN "getUserByUsername" ELSE "done",
                             status |-> IF insertUserSchema(body) THEN "" ELSE "400"])
    /\ UNCHANGED <<users, clientVars>>

\* the existence check of POST /users settles: lines 70-73, and the call of createUser at 75
PostGetUserByUsername(i) ==
    /\ i \in DOMAIN reqs
    /\ reqs[i].method = "POST" /\ reqs[i].pc = "getUserByUsername"
    /\ IF getUserByUsername(reqs[i].body.username) # {}
       THEN Answer(i, "400", TRUE)
       ELSE reqs' = [reqs EXCEPT ![i].pc = "createUser"]
    /\ UNCHANGED <<users, clientVars>>

\* the insert of createUser (189-196) settles: the unique column (148) turns a
\* second row of the same username down and the handler hands the error on
\* (79-81); otherwise the row is stored and the answer is 201 (76-78)
PostCreateUser(i) ==
    /\ i \in DOMAIN reqs
    /\ reqs[i].method = "POST" /\ reqs[i].pc = "createUser"
    /\ IF getUserByUsername(reqs[i].body.username) # {}
       THEN /\ Answer(i, "next(error)", TRUE)
            /\ users' = users
       ELSE /\ users' = users \cup {[id |-> Cardinality(users) + 1,
                                     username |-> reqs[i].body.username,
                                     password |-> reqs[i].body.password]}
            /\ Answer(i, "201", FALSE)
    /\ UNCHANGED clientVars

\* PUT /users/:id arrives: lines 89-95, and the call of getUser at 98
PutUsers(id, body) ==
    /\ Len(reqs) < MaxReqs
    /\ reqs' = Append(reqs, [method |-> "PUT", id |-> id, body |-> body, taken |-> FALSE,
                             pc |-> IF updateUserSchema(body) THEN "getUser" ELSE "done",
                             status |-> IF updateUserSchema(body) THEN "" ELSE "400"])
    /\ UNCHANGED <<users, clientVars>>

\* getUser of PUT /users/:id settles: lines 98-104, and the call of
\* getUserByUsername at 105 or of updateUser at 111
PutGetUser(i) ==
    /\ i \in DOMAIN reqs
    /\ reqs[i].method = "PUT" /\ reqs[i].pc = "getUser"
    /\ IF getUser(reqs[i].id) = {}
       THEN Answer(i, "404", FALSE)
       ELSE LET existingUser == CHOOSE u \in getUser(reqs[i].id) : TRUE
            IN  reqs' = [reqs EXCEPT ![i].pc =
                            IF /\ reqs[i].body.username # Absent
                               /\ reqs[i].body.username # existingUser.username
                            THEN "getUserByUsername" ELSE "updateUser"]
    /\ UNCHANGED <<users, clientVars>>

\* the existence check of PUT /users/:id settles: lines 105-108, and the call of updateUser at 111
PutGetUserByUsername(i) ==
    /\ i \in DOMAIN reqs
    /\ reqs[i].method = "PUT" /\ reqs[i].pc = "getUserByUsername"
    /\ IF getUserByUsername(reqs[i].body.username) # {}
       THEN Answer(i, "409", TRUE)
       ELSE reqs' = [reqs EXCEPT ![i].pc = "updateUser"]
    /\ UNCHANGED <<users, clientVars>>

\* the update of updateUser (222-229) settles: a body without fields sets
\* nothing and the query builder throws; the unique column (148) turns a
\* username held by another row down; both errors are handed on (118-120).
\* No row of that id is 404 (112-114), otherwise the row is changed (115-117)
PutUpdateUser(i) ==
    /\ i \in DOMAIN reqs
    /\ reqs[i].method = "PUT" /\ reqs[i].pc = "updateUser"
    /\ LET body == reqs[i].body
           rows == getUser(reqs[i].id)
       IN  IF body.username = Absent /\ body.password = Absent
           THEN Answer(i, "next(error)", FALSE) /\ users' = users
           ELSE IF rows = {}
           THEN Answer(i, "404", FALSE) /\ users' = users
           ELSE IF /\ body.username # Absent
                   /\ getUserByUsername(body.username) \ rows # {}
           THEN Answer(i, "next(error)", TRUE) /\ users' = users
           ELSE /\ users' = (users \ rows) \cup
                        {[id |-> u.id,
                          username |-> IF body.username = Absent THEN u.username
                                       ELSE body.username,
                          password |-> IF body.password = Absent THEN u.password
                                       ELSE body.password] : u \in rows}
                /\ Answer(i, "200", FALSE)
    /\ UNCHANGED clientVars

\* the user service under create and update requests for the first two rows
NextUsers ==
    \/ \E b \in Bodies : PostUsers(b)
    \/ \E i \in 1..MaxReqs : PostGetUserByUsername(i)
    \/ \E i \in 1..MaxReqs : PostCreateUser(i)
    \/ \E id \in 1..2, b \in Bodies : PutUsers(id, b)
    \/ \E i \in 1..MaxReqs : PutGetUser(i)
    \/ \E i \in 1..MaxReqs : PutGetUserByUsername(i)
    \/ \E i \in 1..MaxReqs : PutUpdateUser(i)

SpecUsers == Init /\ [][NextUsers]_vars

-----------------------------------------------------------------------------
(* Properties of the unlock path *)

\* the step just taken resolved a probe (the code of checkSecretCode after its await)
Resolved == last.op = "checkSecretCode"

\* C1: when a background or inactive event arrived while the verification of a
\* correct probe was pending, isUnlocked is false once that probe has resolved.
BackgroundLockWins == Resolved /\ last.p.isValid /\ last.p.bg => ~isUnlocked

\* C2: handling a lifecycle event whose next state is "background" or
\* "inactive" leaves isUnlocked false, whatever it was before.
LockOnBackground ==
    last.op = "handleAppStateChange" /\ last.arg \in {"background", "inactive"}
        => ~isUnlocked

\* an unlocked session has just been sent to the background or made inactive
LockOnBackgroundWitness ==
    /\ last.op = "handleAppStateChange"
    /\ last.arg = "inactive"
    /\ last.was
    /\ ~isUnlocked

SilentMismatch ==
    [][last'.op = "checkSecretCode" /\ last'.p.code # last'.p.stored
           => /\ isUnlocked' = isUnlocked
              /\ nav' = nav
              /\ UNCHANGED <<storeVars, screenVars, ops, expression, result>>
              /\ UNCHANGED <<isPaired, isSetupComplete, deviceId, pairedWith, messages>>
              /\ last'.unlocks = 0
              /\ (last'.p.own => secretCode' = <<>>)]_vars

\* a mismatched probe has just been resolved on the calculator of a locked session
SilentMismatchWitness ==
    /\ Resolved
    /\ Len(last.p.code) = 4
    /\ last.p.stored # Null
    /\ last.p.code # last.p.stored
    /\ ~isUnlocked
    /\ secretCode = <<>>
    /\ nav = <<"Calculator">>

\* C5: the resolution of a probe equal to the committed code calls unlock()
\* exactly once, and the probe buffer is empty right after it.
UnlockOncePerMatch ==
    Resolved /\ last.p.code = last.p.stored
        => /\ last.unlocks = 1
           /\ isUnlocked
           /\ (last.p.own => secretCode = <<>>)

\* a matching probe has just been resolved
UnlockOncePerMatchWitness ==
    /\ Resolved
    /\ last.p.code = last.p.stored
    /\ last.p.own
    /\ last.unlocks = 1
    /\ secretCode = <<>>

\* C6: there is no lockout.  Whatever number of mismatches came before, the
\* fourth digit of a buffer starts a verification of that buffer, the
\* verification accepts a probe exactly when it equals the stored code, and
\* the resolution of an accepted probe unlocks.
NoLockout ==
    /\ [](\A i \in 1..Len(probes) :
              probes[i].phase = "read"
                  => (probes[i].isValid <=> probes[i].code = probes[i].stored))
    /\ [](Resolved /\ last.p.isValid => isUnlocked)
    /\ [][isSetupComplete /\ Len(secretCode) = 3 /\ Len(secretCode') = 4
              => /\ Len(probes') = Len(probes) + 1
                 /\ probes'[Len(probes')].code = secretCode'
                 /\ probes'[Len(probes')].phase = "reading"]_vars

\* a probe has unlocked the session after an earlier probe was a mismatch
NoLockoutWitness ==
    /\ fails >= 1
    /\ Resolved
    /\ last.p.isValid
    /\ ~last.was
    /\ isUnlocked

\* C7: the resolution of a verification that was pending when the probe buffer
\* was cleared does not change the buffer that has been refilled since (stated
\* for the mismatches, which leave the calculator on screen).
StaleResolutionKeepsBuffer ==
    [][/\ last'.op = "checkSecretCode"
       /\ last'.p.own /\ last'.p.stale /\ ~last'.p.isValid
       /\ secretCode # <<>>
           => secretCode' = secretCode]_vars

\* C8: the probe buffer holds at most 4 characters in every reachable state.
ProbeBufferAtMost4 == Len(secretCode) <= 4

\* C9: once the setup flag is persisted as true, the stored code is replaced
\* by the change-code operation only.
CodeReplacedOnlyByChangeCode ==
    [][bulkStore.is_setup_complete = "true"
           /\ secureStore'.unlock_code # secureStore.unlock_code
           => last'.op = "changeCode"]_vars

\* C10: while setup is not complete, the proposal handed to the Setup screen
\* is the four digits pressed since the probe buffer was empty (typed and the
\* key of the hand-off), the buffer is empty right after the hand-off, and
\* nothing pressed later changes the proposal.
NewCodeProposal ==
    /\ [](~isSetupComplete /\ Top(nav) = "Calculator" => Len(secretCode) < 4)
    /\ [][last'.op = "handOff"
              => /\ ~isSetupComplete
                 /\ Len(typed) = 3
                 /\ setup'.code = typed \o <<last'.arg>>
                 /\ setup'.step = "confirm"
                 /\ Top(nav') = "Setup"
                 /\ secretCode' = <<>>]_vars
    /\ [][Top(nav) = "Setup" /\ Top(nav') = "Setup" => setup'.code = setup.code]_vars

\* four digits have just been handed to the Setup screen
NewCodeProposalWitness ==
    /\ last.op = "handOff"
    /\ setup.code = <<"1", "2", "1", "2">>
    /\ Top(nav) = "Setup"
    /\ secretCode = <<>>

-----------------------------------------------------------------------------
(* Properties of the session state across processes *)

\* C13: isUnlocked is false at every process start, whatever the previous
\* process left, the stores hold no record of it, and no step of the
\* initialisation changes it.
LockedAtStart ==
    /\ [](last.op \in {"init", "restart"} => ~isUnlocked)
    /\ [](DOMAIN secureStore = {"unlock_code", "device_id"})
    /\ [](DOMAIN bulkStore = {"is_setup_complete", "paired_with", "pairing_code", "messages"})
    /\ [][initPc' # initPc /\ last'.op # "restart" => isUnlocked' = isUnlocked]_vars

\* the process has just restarted out of an unlocked session
LockedAtStartWitness ==
    /\ last.op = "restart"
    /\ last.was
    /\ ~isUnlocked
    /\ initPc = "getDeviceId"

-----------------------------------------------------------------------------
(* Properties of the unlock code *)

\* C11: a probe is verified against the code the secret store holds at that
\* moment, which is the one the latest setup or change-code write committed:
\* its verdict is true exactly when the probe equals that code, and its
\* resolution unlocks exactly when the verdict is true.  A probe equal to a
\* code that has been replaced is rejected, one equal to the latest is accepted.
LatestCodeUnlocks ==
    /\ [][\A i \in 1..Len(probes) :
            Len(probes') = Len(probes) /\ probes[i].phase = "reading"
                                       /\ probes'[i].phase = "read"
            => (probes'[i].isValid <=> probes[i].code = secureStore.unlock_code)]_vars
    /\ [](Resolved => (last.unlocks = 1 <=> last.p.isValid))

\* the code of the first setup has been replaced, and a probe equal to it has
\* just been rejected
LatestCodeUnlocksWitness ==
    /\ Resolved
    /\ last.p.code = InstalledCode
    /\ last.p.stored = <<"2", "1", "2", "1">>
    /\ secureStore.unlock_code = <<"2", "1", "2", "1">>
    /\ last.unlocks = 0
    /\ ~isUnlocked

\* C12: the unlock code in the secret store, when present, is four numeric
\* digits, and so is every code on its way to the store: a proposal of another
\* length or with a non-digit character (a decimal point typed on the
\* calculator, a text typed into the change-code input) is rejected before
\* setUnlockCode is called, on the setup path and on the change-code path.
FourDigitCode ==
    /\ secureStore.unlock_code # Null
        => Len(secureStore.unlock_code) = 4 /\ IsDigits(secureStore.unlock_code)
    /\ \A i \in 1..Len(ops) :
        ops[i].op \in {"setupComplete", "changeCode"}
            => Len(ops[i].arg) = 4 /\ IsDigits(ops[i].arg)

\* Setup has been handed a proposal with a decimal point, four keys have been
\* pressed to confirm it and the confirmation has been refused
FourDigitCodeWitness ==
    /\ Top(nav) = "Setup"
    /\ Includes(setup.code, ".")
    /\ setup.error = "Codes don't match. Try again."
    /\ secureStore.unlock_code = Null
    /\ ops = <<>>

-----------------------------------------------------------------------------
(* Properties of pairing *)

\* C15: in every state of the controller isPaired is true exactly when
\* pairedWith is not null: after the initialisation, after joinWithCode with
\* any code (one produced by generatePairingCode included) and after unpair.
PairedIffLink == isPaired <=> pairedWith # Null

UpperAlnum ==
    Digits \cup {"A", "B", "C", "D", "E", "F", "G", "H", "I", "J", "K", "L", "M",
                 "N", "O", "P", "Q", "R", "S", "T", "U", "V", "W", "X", "Y", "Z"}

\* C18: every value persisted as the pairing link is upper-case and at least
\* 6 characters long, whether it was typed and joined or generated on this
\* device and continued with.
LinkAtLeast6 ==
    bulkStore.paired_with # Null
        => /\ Len(bulkStore.paired_with) >= 6
           /\ ToUpperCase(bulkStore.paired_with) = bulkStore.paired_with

\* C19: every code generatePairingCode returns has exactly 6 characters, each
\* an upper-case letter or a digit, and when the call has completed the
\* pairing code in the bulk store is the code returned.
SixCharPairingCode ==
    /\ [](\A i \in 1..Len(ops) :
            ops[i].op = "generatePairingCode"
                => /\ Len(ops[i].arg) = 6
                   /\ \A k \in 1..Len(ops[i].arg) : ops[i].arg[k] \in UpperAlnum)
    /\ [][\A i \in 1..Len(ops) :
            ops[i].op = "generatePairingCode" /\ Len(ops') < Len(ops)
                /\ ops' = RemoveAt(ops, i)
            => bulkStore'.pairing_code \in {ops[j].arg : j \in 1..Len(ops)}]_vars

\* C17: when joinWithCode(code) has completed, the persisted pairing link and
\* pairedWith equal code, isPaired is true, and the in-memory message list
\* equals the message collection in the bulk store.
JoinLoadsMessages ==
    last.op = "joinWithCode"
        => /\ isPaired
           /\ pairedWith = bulkStore.paired_with
           /\ pairedWith # Null
           /\ messages = GetMessages(bulkStore)

-----------------------------------------------------------------------------
(* Properties of the conversation *)

\* the step just taken completed the operation: its last storage call settled
Completed(op, call) == last.op = op /\ last.arg = call

SendRefreshRoundTrip ==
    /\ [][last'.op = "handleSend" /\ deviceId # NoId
          => /\ Len(ops') = Len(ops) + 1
             /\ LET m == ops'[Len(ops')].arg
                IN  m.text = last'.arg /\ m.senderId = deviceId /\ m.status = "sent"]_vars
    /\ [][\A i \in 1..Len(ops) :
            At(i, "sendMessage", "saveMessages") /\ last'.op = "addMessage"
                /\ last'.arg = "saveMessages" /\ ops' = RemoveAt(ops, i)
            => /\ bulkStore'.messages.present
               /\ bulkStore'.messages.list # <<>>
               /\ Top(bulkStore'.messages.list) = ops[i].arg]_vars
    /\ [][last'.op = "refreshMessages" /\ last'.arg = "getMessages"
          => messages' = GetMessages(bulkStore) /\ bulkStore' = bulkStore]_vars
    /\ [](/\ Completed("refreshMessages", "getMessages")
          /\ clock = 1
          /\ \A i \in 1..Len(ops) : ops[i].op # "sendMessage"
          /\ bulkStore.messages.present
          => /\ messages # <<>>
             /\ Top(messages).text \in Texts
             /\ Top(messages).senderId = deviceId
             /\ Top(messages).status = "sent")

\* "hi" has been sent after the stored message and a refresh has completed
SendRefreshRoundTripWitness ==
    /\ Completed("refreshMessages", "getMessages")
    /\ deviceId # NoId
    /\ Len(messages) = 2
    /\ messages[1].text = "yo"
    /\ Top(messages).text = "hi"
    /\ Top(messages).senderId = deviceId
    /\ Top(messages).status = "sent"
    /\ messages = bulkStore.messages.list

-----------------------------------------------------------------------------
(* Properties of the setup flag *)

\* C14: once setup has committed, the persisted setup flag and the in-memory
\* isSetupComplete stay true through unlock, lock, change code,
\* generatePairingCode, joinWithCode, unpair, sendMessage, refreshMessages and
\* the lifecycle events; unpair does not reset it.
SetupFlagMonotonic ==
    /\ [][bulkStore.is_setup_complete = "true"
          => bulkStore'.is_setup_complete = "true"]_vars
    /\ [][isSetupComplete => isSetupComplete']_vars
    /\ [](Completed("unpair", "removeMessages")
            => bulkStore.is_setup_complete = "true")

\* a paired device has been unpaired, and the flag is still set in the store
\* and in memory
SetupFlagMonotonicWitness ==
    /\ Completed("unpair", "removeMessages")
    /\ bulkStore.pairing_code = Null
    /\ bulkStore.is_setup_complete = "true"
    /\ isSetupComplete
    /\ ~isPaired

-----------------------------------------------------------------------------
(* Properties of sendMessage *)

\* C21: every completed sendMessage adds exactly one message at the end of
\* the persisted collection and keeps every message stored before it, in
\* order, also when a second call is issued while the first is pending.
NoLostUpdate ==
    [][last'.op = "addMessage" /\ last'.arg = "saveMessages"
       => LET old == GetMessages(bulkStore)
              new == GetMessages(bulkStore')
          IN  Len(new) = Len(old) + 1 /\ SubSeq(new, 1, Len(old)) = old]_vars

\* C22: while deviceId is null, sendMessage(text) starts no storage read or
\* write and leaves the in-memory message list and both stores as they are.
NoSendWithoutId ==
    [][last'.op = "handleSend" /\ deviceId = NoId
       => /\ ops' = ops
          /\ messages' = messages
          /\ bulkStore' = bulkStore
          /\ secureStore' = secureStore]_vars

\* a message has just been sent from the Chat screen of a device whose
\* initialisation failed before the device id was loaded
NoSendWithoutIdWitness ==
    /\ last.op = "handleSend"
    /\ deviceId = NoId
    /\ initPc = "failed"
    /\ Top(nav) = "Chat"
    /\ ops = <<>>
    /\ messages = <<>>
    /\ bulkStore.messages = OneMessage

-----------------------------------------------------------------------------
(* Properties of the initialisation *)

\* C23: when no storage call fails, the step that completes initializeApp
\* leaves the in-memory state equal to the stores: deviceId is the persisted
\* identity (created and persisted when it was absent), isSetupComplete the
\* persisted flag (false when absent), pairedWith the persisted link, and
\* messages the persisted collection when paired, empty otherwise.
InitMirrorsStores ==
    [][initPc # "done" /\ initPc' = "done"
       => /\ deviceId' # NoId
          /\ deviceId' = secureStore'.device_id
          /\ isSetupComplete' = (bulkStore'.is_setup_complete = "true")
          /\ pairedWith' = bulkStore'.paired_with
          /\ messages' = IF isPaired' THEN bulkStore'.messages.list ELSE <<>>]_vars

\* the initialisation of a paired device has completed with the stored
\* message loaded
InitMirrorsStoresWitness ==
    /\ initPc = "done"
    /\ isPaired
    /\ isSetupComplete
    /\ deviceId = "uuid-1"
    /\ pairedWith = InstalledPartner
    /\ messages = OneMessage.list

\* the step taken is a storage failure of initializeApp at the call `pc`
FailsAt(pc) == initPc = pc /\ initPc' = "failed"

\* C24: when a storage call of initializeApp fails, the initialisation ends
\* there, the application goes on, no in-memory field and no store changes,
\* and every field not loaded yet has its default: deviceId null,
\* isSetupComplete false, isPaired false, pairedWith null, messages empty,
\* and isUnlocked false as long as the setup flag it depends on is not loaded.
InitFailureKeepsDefaults ==
    /\ [][initPc # "failed" /\ initPc' = "failed"
          => UNCHANGED <<isUnlocked, isPaired, isSetupComplete, deviceId, pairedWith,
                         messages, secureStore, bulkStore, nav>>]_vars
    /\ [][FailsAt("getDeviceId") => deviceId' = NoId]_vars
    /\ [][FailsAt("getDeviceId") \/ FailsAt("isSetupComplete")
          => ~isSetupComplete' /\ ~isUnlocked']_vars
    /\ [][FailsAt("getDeviceId") \/ FailsAt("isSetupComplete") \/ FailsAt("getPairedWith")
          => ~isPaired' /\ pairedWith' = Null]_vars
    /\ [][initPc' = "failed" => messages' = <<>>]_vars
    /\ [][initPc = "failed" /\ initPc' # "failed" => last'.op = "restart"]_vars

\* the read of the messages of a paired device has failed, the list is empty,
\* and the session has been unlocked all the same
InitFailureKeepsDefaultsWitness ==
    /\ initPc = "failed"
    /\ isPaired
    /\ messages = <<>>
    /\ bulkStore.messages = OneMessage
    /\ isUnlocked
    /\ Top(nav) = "Chat"

-----------------------------------------------------------------------------
(* Properties of the device identity *)

\* C25: the device identity is generated at most once per install: once the
\* secret store holds one it never changes, every later getDeviceId (in the
\* same process or after a restart) returns it, and no controller operation
\* changes the persisted or the in-memory deviceId; only a restart of the
\* process empties the in-memory one until it is loaded again.
DeviceIdOnce ==
    /\ [][secureStore.device_id # NoId
          => secureStore'.device_id = secureStore.device_id]_vars
    /\ [][deviceId # NoId /\ last'.op # "restart" => deviceId' = deviceId]_vars
    /\ [](deviceId # NoId => deviceId = secureStore.device_id)

\* a message was sent in an earlier run of the process (the stack of this run
\* holds the first Calculator only), and this run has loaded the identity
\* the first start generated
DeviceIdOnceWitness ==
    /\ nav = <<"Calculator">>
    /\ deviceId = "uuid-1"
    /\ secureStore.device_id = "uuid-1"
    /\ clock = 1
    /\ initPc = "done"
    /\ isPaired
    /\ Len(messages) = 1
    /\ ops = <<>>

-----------------------------------------------------------------------------
(* Properties of lock and unlock *)

\* the step taken calls lock(): the lock buttons of Chat and Settings, and a
\* lifecycle event that leaves the foreground
LockStep ==
    \/ \E sc \in {"Chat", "Settings"} : LockAndExit(sc)
    \/ \E a \in {"background", "inactive"} : HandleAppStateChange(a)

\* the step taken resolves a probe, the only caller of unlock()
UnlockStep == \E i \in 1..MaxInflight : ResolveProbe(i)

\* C26: lock() leaves isUnlocked false; when the session is locked already it
\* changes nothing, so two locks in a row leave what one leaves; neither
\* lock() nor unlock() changes a record of the secret or the bulk store, or an
\* in-memory field other than isUnlocked.
LockIsIdempotent ==
    /\ [][LockStep => ~isUnlocked']_vars
    /\ [][LockStep /\ ~isUnlocked
          => UNCHANGED <<appVars, storeVars, nav, calcVars>>]_vars
    /\ [][LockStep \/ UnlockStep
          => UNCHANGED <<secureStore, bulkStore, isPaired, isSetupComplete, deviceId,
                         pairedWith, messages>>]_vars

\* a locked session has just been locked again by a lifecycle event, after
\* it had been unlocked and locked from the Chat screen
LockIsIdempotentWitness ==
    /\ last.op = "handleAppStateChange"
    /\ last.arg = "background"
    /\ ~last.was
    /\ ~isUnlocked
    /\ nav = <<"Calculator", "Calculator">>
    /\ bulkStore.messages = OneMessage

-----------------------------------------------------------------------------
\* C27: every press of a digit key appends the digit to the expression and
\* re-evaluates the displayed result, whatever the probe does with the press
\* (buffer not yet full, hand-off of a proposed code before setup, match or
\* mismatch).
DigitAppended ==
    [][\A v \in KeyDigits :
          HandleNumberPress(v)
          => expression' = expression \o <<v>> /\ result' = evaluateExpression(expression')]_vars

-----------------------------------------------------------------------------
Adjacent(expr) ==
    \E i \in 1..(Len(expr) - 1) : expr[i] \in Operators /\ expr[i + 1] \in Operators

\* C28: whatever keys are pressed, the expression never holds two operator
\* characters next to each other: an operator key on an expression that ends
\* with an operator replaces that operator, on any other non-empty expression
\* it is appended.
NoAdjacentOperators ==
    /\ [](~Adjacent(expression))
    /\ [][\A op \in Operators :
             HandleOperatorPress(op) /\ expression # <<>>
             => IF expression[Len(expression)] \in Operators
                THEN expression' = DropLast(expression) \o <<op>>
                ELSE expression' = expression \o <<op>>]_vars

\* an operator key has replaced the sign that a backspace left of a negative
\* result: the expression is that operator alone
NoAdjacentOperatorsWitness ==
    /\ last.op = "handleOperatorPress"
    /\ expression = <<"*">>

-----------------------------------------------------------------------------
\* C29: in whatever state it is pressed, the clear key leaves the expression
\* empty, the probe buffer empty and the result "0", and changes neither the
\* session state in memory nor any stored record.
ClearResets ==
    [][HandleClearPress
       => /\ expression' = <<>>
          /\ secretCode' = <<>>
          /\ result' = <<"0">>
          /\ UNCHANGED <<appVars, storeVars>>]_vars

\* the clear key has been pressed after setup, while a probe of the three
\* keys before it was still waiting for the store
ClearResetsWitness ==
    /\ last.op = "handleClearPress"
    /\ isSetupComplete
    /\ secureStore.unlock_code # Null
    /\ probes # <<>>
    /\ expression = <<>>
    /\ secretCode = <<>>

-----------------------------------------------------------------------------
\* a number as the display shows it: digits, at most one point inside them,
\* and a minus sign in front of a negative one
IsNumberText(s) ==
    LET t == IF s # <<>> /\ s[1] = "-" THEN Tail(s) ELSE s
    IN  /\ t # <<>>
        /\ \A i \in 1..Len(t) : t[i] \in Digits \cup {"."}
        /\ t[1] # "." /\ t[Len(t)] # "."
        /\ Cardinality({i \in 1..Len(t) : t[i] = "."}) <= 1

ZeroLiteral(t) == Includes(t, "0") /\ \A i \in 1..Len(t) : t[i] \in {"0", "."}

\* the expression has a division whose divisor is written as zero
DividesByZero(expr) ==
    LET toks == Tokens(expr, <<>>)
    IN  \E i \in 1..(Len(toks) - 1) : toks[i] = <<"/">> /\ ZeroLiteral(toks[i + 1])

EndsWithOperator(expr) == expr # <<>> /\ expr[Len(expr)] \in Operators

\* C30: the equals key on a non-empty expression always produces a result and
\* puts it in place of the expression: the result is a number as the display
\* shows it, and it is "0" whenever the expression divides by zero (5/0, 0/0)
\* or cannot be evaluated, as when it ends with an operator.
EvaluationTotal ==
    [][HandleEqualsPress /\ expression # <<>>
       => /\ expression' = result'
          /\ IsNumberText(expression')
          /\ (DividesByZero(expression) \/ EndsWithOperator(expression)
              => expression' = <<"0">>)]_vars

\* the equals key has been pressed on 5/0 and the expression is now "0"
EvaluationTotalWitness ==
    /\ last.op = "handleEqualsPress"
    /\ last.arg = <<"5", "/", "0">>
    /\ expression = <<"0">>
    /\ result = <<"0">>

-----------------------------------------------------------------------------
\* what a number key does to the expression and the result, told from the
\* expression, the result and the key alone
KeyEffect(expr, res, v) ==
    IF RejectsPoint(expr, v) THEN <<expr, res>>
    ELSE <<expr \o <<v>>, evaluateExpression(expr \o <<v>>)>>

\* C31: with setup complete the probe does not show in the arithmetic. What a
\* number key leaves in the expression and the result depends on the
\* expression, the result and the key only, not on the stored code, the probe
\* buffer or the probes in flight; and the read of the stored code and the
\* continuation of a probe that did not match change neither. Two runs with
\* the same keys and different stored codes that no probe matches therefore
\* show the same expression and result after every press.
ProbeInvisible ==
    /\ [][\A v \in KeyDigits \cup {"."} :
             isSetupComplete /\ HandleNumberPress(v)
             => <<expression', result'>> = KeyEffect(expression, result, v)]_vars
    /\ [][\A i \in 1..MaxInflight :
             VerifyRead(i) \/ (ResolveProbe(i) /\ ~probes[i].isValid)
             => UNCHANGED <<expression, result>>]_vars

\* the keys 1 . 2 1 have been probed against a changed code and did not
\* match: the expression still shows them
ProbeInvisibleWitness ==
    /\ last.op = "checkSecretCode"
    /\ ~last.p.isValid
    /\ last.p.code = <<"1", ".", "2", "1">>
    /\ secureStore.unlock_code = <<"2", "1", "2", "1">>
    /\ expression = <<"1", ".", "2", "1">>
    /\ result = <<"1", ".", "2", "1">>
    /\ secretCode = <<>>

-----------------------------------------------------------------------------
\* C32: when the app leaves the foreground (background or inactive), once
\* the screens have reacted the Calculator is on top of the stack, whatever
\* was on top before, and Chat is never on top while isUnlocked is false.
DisguiseOnBackground ==
    /\ [][last'.op = "handleAppStateChange" /\ last'.arg \in {"background", "inactive"}
          => Top(nav') = "Calculator"]_vars
    /\ [](Top(nav) = "Chat" => isUnlocked)

-----------------------------------------------------------------------------
\* C33: a press of the decimal point is dropped from the expression exactly
\* when the operand being entered already has a point, is appended in every
\* other case, and goes into the probe buffer in both cases.
PointOncePerOperand ==
    [][HandleNumberPress(".")
       => /\ expression' = IF Includes(CurrentOperand(expression), ".") THEN expression
                           ELSE expression \o <<".">>
          /\ secretCode' = secretCode \o <<".">>]_vars

-----------------------------------------------------------------------------
\* the value of a op1 b op2 c by the rule of precedence: * and / before + and
\* -, and from left to right otherwise
ByPrecedence(t) ==
    LET a == LitVal(t[1])  b == LitVal(t[3])  c == LitVal(t[5])
    IN  IF t[2][1] \in {"+", "-"} /\ t[4][1] \in {"*", "/"}
        THEN Apply(t[2][1], a, Apply(t[4][1], b, c))
        ELSE Apply(t[4][1], Apply(t[2][1], a, b), c)

\* C34: the equals key on a whole-number expression a op b op c over + - * /
\* leaves the one value the rule of precedence gives it (* and / bind
\* tighter than + and -, equal precedence from left to right), "0" when that
\* value is not finite; 12+8*2 gives 28.
StandardPrecedence ==
    last.op = "handleEqualsPress" /\ last.arg \in IntExprs
    => /\ LET v == ByPrecedence(Tokens(last.arg, <<>>))
          IN  expression = IF v.d = 0 THEN <<"0">> ELSE NumberText(v)
       /\ result = expression
       /\ (last.arg = <<"1", "2", "+", "8", "*", "2">> => expression = <<"2", "8">>)

\* equals has been pressed on 12+8*2 and the expression is 28
StandardPrecedenceWitness ==
    /\ last.op = "handleEqualsPress"
    /\ last.arg = <<"1", "2", "+", "8", "*", "2">>
    /\ expression = <<"2", "8">>

-----------------------------------------------------------------------------
\* C35: the change-code dialog starts a write of the secret store only when
\* the new code is 4 digits and the confirmation equals it; a submit that
\* fails validation starts nothing; the submit itself changes no store and
\* no session state; and the write, when it settles, replaces the unlock code
\* by those 4 digits and leaves the setup flag, the pairing link, the
\* pairing code, the messages, the device identity and isUnlocked as they were.
ChangeCodeFrame ==
    /\ [][HandleCodeSubmit
          => /\ UNCHANGED <<storeVars, appVars>>
             /\ (ops' # ops <=> /\ settings.codeStep = "confirm"
                                /\ Len(settings.newCode) = 4
                                /\ IsDigits(settings.newCode)
                                /\ settings.confirmCode = settings.newCode)
             /\ (ops' # ops => ops'[Len(ops')].arg = settings.newCode)]_vars
    /\ [][\A i \in 1..MaxInflight :
             ChangeCodeDone(i)
             => /\ secureStore'.unlock_code = ops[i].arg
                /\ Len(ops[i].arg) = 4 /\ IsDigits(ops[i].arg)
                /\ secureStore'.device_id = secureStore.device_id
                /\ UNCHANGED <<bulkStore, appVars>>]_vars

\* the dialog has replaced the installed code by 2121 on a paired, unlocked
\* device, and flag and link are what they were
ChangeCodeFrameWitness ==
    /\ last.op = "changeCode"
    /\ secureStore.unlock_code = <<"2", "1", "2", "1">>
    /\ bulkStore.is_setup_complete = "true"
    /\ bulkStore.paired_with = InstalledPartner
    /\ isUnlocked
    /\ ops = <<>>

-----------------------------------------------------------------------------
\* C36: a send or a refresh that is still waiting on the store when the
\* device is unpaired does not bring messages back: once nothing is in
\* flight any more and the link is gone, the stored collection is absent or
\* empty and the list in memory is empty.
NoResurrection ==
    ops = <<>> /\ bulkStore.paired_with = Null /\ ~isPaired /\ initPc = "done"
    => GetMessages(bulkStore) = <<>> /\ messages = <<>>

-----------------------------------------------------------------------------
\* C37: whenever the stored setup flag is true the secret store holds an
\* unlock code: in every intermediate state of setupComplete, which writes
\* the code before the flag, when one of its two writes fails, across
\* restarts, and no step removes a stored code.
FlagImpliesCode ==
    /\ [](bulkStore.is_setup_complete = "true" => secureStore.unlock_code # Null)
    /\ [][secureStore.unlock_code # Null => secureStore'.unlock_code # Null]_vars

\* the flag has just been written after the code
FlagImpliesCodeWitness ==
    /\ last.op = "setupComplete"
    /\ last.arg = "setSetupComplete"
    /\ bulkStore.is_setup_complete = "true"
    /\ secureStore.unlock_code = <<"1", "2", "1", "2">>

-----------------------------------------------------------------------------
\* C38: the code has to be entered as four number keys in a row. Every
\* operator, equals, clear and backspace key empties the probe buffer; a code
\* is submitted for verification only when the four keys before it were
\* number keys with no other key between them (typed holds the number keys
\* since the last key of another kind); and isUnlocked turns true only in the
\* continuation of such a probe.
FourInARow ==
    /\ [][\/ \E op \in Operators : HandleOperatorPress(op)
          \/ HandleEqualsPress
          \/ HandleClearPress
          \/ HandleBackspacePress
          => secretCode' = <<>>]_vars
    /\ [][Len(probes') > Len(probes)
          => /\ Len(typed') >= 4
             /\ probes'[Len(probes')].code = SubSeq(typed', Len(typed') - 3, Len(typed'))]_vars
    /\ [][~isUnlocked /\ isUnlocked' => last'.op = "checkSecretCode" /\ last'.p.isValid]_vars

\* 1, 2, +, 1, 2 has been typed, then 1, 2 once more: four number keys in a
\* row, two of them the end of the installed code, and no probe was started
FourInARowWitness ==
    /\ expression = <<"1", "2", "+", "1", "2">>
    /\ secretCode = <<"1", "2">>
    /\ probes = <<>>
    /\ ~isUnlocked
    /\ isSetupComplete

-----------------------------------------------------------------------------
\* C39: whenever the initialisation has finished and no controller operation
\* is in flight, the session state in memory agrees with the stores:
\* isSetupComplete is the stored flag, pairedWith is the stored link, and the
\* list of messages in memory is the stored collection.
MemoryMirrorsStores ==
    ops = <<>> /\ initPc = "done"
    => /\ isSetupComplete = (bulkStore.is_setup_complete = "true")
       /\ pairedWith = bulkStore.paired_with
       /\ messages = GetMessages(bulkStore)

-----------------------------------------------------------------------------
(* Properties of the backend user service *)

\* no two rows of the users table hold the same username
UniqueUsernames == \A u, v \in users : u.username = v.username => u = v

\* every answered request that was turned down over a held username got the
\* answer of its route: 400 for a create, 409 for an update
RefusalsAnswered ==
    \A i \in DOMAIN reqs :
        reqs[i].pc = "done" /\ reqs[i].taken
        => reqs[i].status = IF reqs[i].method = "POST" THEN "400" ELSE "409"

\* C40: however create and update requests interleave, no two stored users
\* share a username; a create whose username is held is answered 400 and an
\* update to a username held by another user is answered 409, also when the
\* requests passed the existence check together; and the step that turns
\* such a request down leaves the users table as it was
UsernamesUniqueAndRefused ==
    /\ [](UniqueUsernames /\ RefusalsAnswered)
    /\ [][\A i \in DOMAIN reqs : reqs'[i].taken /\ ~reqs[i].taken => users' = users]_vars

\* the two parts of C40 that do not depend on the answer given
UsernamesUniqueTableKept ==
    /\ []UniqueUsernames
    /\ [][\A i \in DOMAIN reqs : reqs'[i].taken /\ ~reqs[i].taken => users' = users]_vars

====
